---- MODULE Spec2Model ----
(***************************************************************************)
(* Model of spateo's MuSIC_Interpreter (downstream analysis of spatially   *)
(* weighted regression models): the MPI-distributed significance test      *)
(* compute_coeff_significance and the effect-potential computation         *)
(* get_effect_potential.                                                   *)
(*                                                                         *)
(* Conventions.  Names (column labels, feature names) are sequences of     *)
(* one-character strings, so that prefix tests and str.replace are         *)
(* computed as Python computes them.  Coefficients and standard errors are *)
(* integers in units of 1e-3.  p- and q-values are integers in units of    *)
(* 1/POne.  Observation indices are 0-based as in the source.              *)
(***************************************************************************)
EXTENDS Integers, Sequences, FiniteSets, TLC

\* ------------------------------------------------------------------ bounds
MaxN == 3
MaxW == 2
MaxCells == 2

\* ------------------------------------------------------------- arithmetic
Abs(x) == IF x < 0 THEN -x ELSE x
Min2(a, b) == IF a <= b THEN a ELSE b

\* math.ceil(float(n) / w)
CeilDiv(n, w) == (n + w - 1) \div w

RECURSIVE Concat(_)
\* np.concatenate(blocks, axis=0): the blocks in list order
Concat(blocks) == IF blocks = <<>> THEN <<>> ELSE Head(blocks) \o Concat(Tail(blocks))

\* ------------------------------------------------------------------ names
\* str.startswith
StartsWith(s, p) == Len(s) >= Len(p) /\ SubSeq(s, 1, Len(p)) = p

\* `p in s` for strings
Contains(s, p) == \E k \in 1..(Len(s) - Len(p) + 1) : SubSeq(s, k, k + Len(p) - 1) = p

RECURSIVE Replace(_, _, _)
\* str.replace(old, new): every non-overlapping occurrence, left to right
Replace(s, old, new) ==
    IF Len(s) < Len(old) THEN s
    ELSE IF SubSeq(s, 1, Len(old)) = old
         THEN new \o Replace(SubSeq(s, Len(old) + 1, Len(s)), old, new)
         ELSE <<s[1]>> \o Replace(Tail(s), old, new)

BPrefix == <<"b", "_">>
SePrefix == <<"s", "e", "_">>
InterceptName == <<"i", "n", "t", "e", "r", "c", "e", "p", "t">>

\* f"b_{name}" and f"se_{name}"
BCol(name) == BPrefix \o name
SeCol(name) == SePrefix \o name

\* Membership of a value in a Python list
InList(x, lst) == \E k \in 1..Len(lst) : lst[k] = x

RECURSIVE Split(_, _)
\* str.split(sep) for a one-character separator: the list of parts
Split(s, sep) ==
    IF ~InList(sep, s) THEN <<s>>
    ELSE LET k == CHOOSE p \in 1..Len(s) : s[p] = sep /\ \A q \in 1..(p - 1) : s[q] # sep
         IN  <<SubSeq(s, 1, k - 1)>> \o Split(SubSeq(s, k + 1, Len(s)), sep)

RECURSIVE Join(_, _)
\* sep.join(parts)
Join(parts, sep) ==
    IF parts = <<>> THEN <<>>
    ELSE IF Len(parts) = 1 THEN Head(parts)
    ELSE Head(parts) \o <<sep>> \o Join(Tail(parts), sep)

RECURSIVE CollapseElements(_, _, _, _)
\* The loop over the '/'-separated elements: the first element of the family
\* (prefix `short`, or `b_`+short, or the family name itself) becomes the family
\* name, every later one is dropped
CollapseElements(elements, short, family, encountered) ==
    IF elements = <<>> THEN <<>>
    ELSE LET element == Head(elements)
             prefixed == StartsWith(element, BPrefix \o short) \/ element = BPrefix \o family
             member == StartsWith(element, short) \/ StartsWith(element, BPrefix \o short)
                          \/ element = family \/ element = BPrefix \o family
         IN  IF ~member
             THEN <<element>> \o CollapseElements(Tail(elements), short, family, encountered)
             ELSE IF encountered
             THEN CollapseElements(Tail(elements), short, family, TRUE)
             ELSE <<IF prefixed THEN BPrefix \o family ELSE family>>
                      \o CollapseElements(Tail(elements), short, family, TRUE)

\* Shared body of the two formatting functions: the part before the first ':'
\* is collapsed, the part after it is put back
CollapseFamily(string, short, family) ==
    LET parts == Split(string, ":")
        replaced_part == Join(CollapseElements(Split(parts[1], "/"), short, family, FALSE), "/")
    IN  IF Len(parts) > 1 THEN replaced_part \o <<":">> \o parts[2] ELSE replaced_part

replace_col_with_collagens(string) ==
    CollapseFamily(string, <<"C", "O", "L">>, <<"C", "o", "l", "l", "a", "g", "e", "n", "s">>)
replace_hla_with_hlas(string) ==
    CollapseFamily(string, <<"H", "L", "A">>, <<"H", "L", "A", "s">>)

\* ------------------------------------------------------------- dataframes
\* A DataFrame is [columns |-> sequence of names, rows |-> [0..n-1 -> sequence of values]].
\* Position of a column label (0: no such column, a KeyError in pandas)
ColLoc(df, name) ==
    IF InList(name, df.columns)
    THEN CHOOSE k \in 1..Len(df.columns) : df.columns[k] = name
    ELSE 0

\* df.iloc[obs][name]
Cell(df, obs, name) == df.rows[obs][ColLoc(df, name)]

RECURSIVE FilterSeq(_, _)
FilterSeq(s, keep) ==
    IF s = <<>> THEN <<>>
    ELSE IF keep[Head(s)] THEN <<Head(s)>> \o FilterSeq(Tail(s), keep)
         ELSE FilterSeq(Tail(s), keep)

\* df[columns]: a new frame holding the listed columns
SelectCols(df, cols) ==
    [columns |-> cols,
     rows |-> [i \in DOMAIN df.rows |-> [k \in 1..Len(cols) |-> Cell(df, i, cols[k])]]]

\* ------------------------------------------------------------------ state
VARIABLES
    n_samples,              \* self.n_samples
    comm_size,              \* self.comm.size
    feature_names,          \* self.feature_names
    coeffs,                 \* self.coeffs: target -> DataFrame
    standard_errors,        \* self.standard_errors: target -> DataFrame
    significance_threshold, \* argument of compute_coeff_significance
    pc,                     \* per rank: "new", "loop", "gather", "done", "error"
    tgt,                    \* per rank: position in `for target in self.coeffs.keys()`
    x_chunk,                \* per rank: self.x_chunk
    sent,                   \* per target: ranks whose block reached the gather
    blocks,                 \* per target, per rank: local_p_values_all as sent
    p_values_all,           \* per target: the matrix assembled on rank 0
    files,                  \* per target: the significance files written
    mod_type,               \* self.mod_type
    target_for_downstream,  \* self.target_for_downstream
    fitted,                 \* the coefficients as return_outputs() delivered them
    ligands_expr_nonlag,    \* self.ligands_expr_nonlag: ligand -> expression per cell
    receptors_expr,         \* self.receptors_expr: receptor -> expression per cell
    targets_expr,           \* self.targets_expr: target -> expression per cell
    spatial_weights,        \* signaling class -> weight matrix (sender row, receiver column)
    ret,                    \* outcome of the last get_effect_potential call
    adata_obs,              \* self.adata.obs: the stored columns
    pathway_for_downstream, \* self.pathway_for_downstream
    pret,                   \* outcome of the last get_pathway_potential call
    coords,                 \* self.coords: cell -> <<x, y>>
    top_k,                  \* self.k (top_k_receivers)
    adata_obsm,             \* self.adata.obsm: the stored vector fields
    vret,                   \* inputs and outcome of the last define_effect_vf call
    vf_args,                \* the arguments a caller holds for define_effect_vf
    bandwidths,             \* self.n_neighbors_* and self.distance_* of both classes
    cache,                  \* spatial_weights/*.npz: class -> matrix, or None when absent
    wret,                   \* the weights the last operation worked with, and their origin
    dret,                   \* outcome of the last inferred_effect_direction call
    stgwr,                  \* the fields of the STGWR instance of rank 0
    pool,                   \* the multiprocessing pool of _compute_all_wi
    permuted,               \* what the last permutation_test call built
    group_name,             \* self.adata.obs[self.group_key]: cell -> cell type label
    cret                    \* outcome of the last compute_cell_type_coupling call

sigVars == <<pc, tgt, x_chunk, sent, blocks, p_values_all, files>>
inputVars == <<n_samples, comm_size, feature_names, significance_threshold,
               mod_type, target_for_downstream, fitted, ligands_expr_nonlag, receptors_expr, targets_expr,
               spatial_weights, stgwr, pool, permuted, group_name, cret>>
dataVars == <<inputVars, coeffs, standard_errors>>
epVars == <<ret, adata_obs>>
downstreamVars == <<pathway_for_downstream, pret, coords, top_k, adata_obsm, vret, vf_args,
                    bandwidths, cache, wret, dret>>
cacheVars == <<bandwidths, cache, wret, dret>>
vars == <<dataVars, sigVars, epVars, downstreamVars>>
interpreterVars == <<n_samples, comm_size, feature_names, significance_threshold,
                     mod_type, target_for_downstream, fitted, ligands_expr_nonlag, receptors_expr,
                     targets_expr, spatial_weights, coeffs, standard_errors,
                     sigVars, epVars, downstreamVars>>

Ranks == 0..(comm_size - 1)
Obs == 0..(n_samples - 1)

\* The target genes, in the order of self.coeffs.keys()
TargetNames == <<"T1", "T2">>
NTargets == Len(TargetNames)

None == "None"

\* -------------------------------------------------------------- statistics
\* p- and q-values are counted in units of 1/POne (POne stands for 1.0).
POne == 12 * 100

\* regression_utils.wald_test(coef, se): two-sided p-value of z = coef / se under the
\* standard normal, tabulated on floor(2|z|) (0.62, 0.32, 0.13, 0.05, 0.01, 0).
WaldTable == <<POne, 744, 384, 156, 60, 12>>
wald_test(b, s) ==
    LET k == (2 * Abs(b)) \div s
    IN  IF k + 1 <= Len(WaldTable) THEN WaldTable[k + 1] ELSE 0

\* regression_utils.multitesting_correction(pvals, method="fdr_bh"): the
\* Benjamini-Hochberg step-up adjustment of one family of p-values:
\* q[a] = min over p[b] >= p[a] of p[b] * m / rank(b), capped at 1.
multitesting_correction(pvals) ==
    LET m == Len(pvals)
        rank(b) == Cardinality({c \in 1..m : pvals[c] <= pvals[b]})
        adj(b) == Min2(POne, (pvals[b] * m) \div rank(b))
        least(S) == CHOOSE x \in S : \A y \in S : x <= y
    IN  [a \in 1..m |-> least({adj(b) : b \in {c \in 1..m : pvals[c] >= pvals[a]}})]

\* ------------------------------------------------- MuSIC_Interpreter.__init__
\* chunk_size = int(math.ceil(float(len(range(self.n_samples))) / self.comm.size))
ChunkSize(n, w) == CeilDiv(n, w)

\* np.arange(n)[lo:hi]: the indices lo .. min(hi, n) - 1, in order
ArangeSlice(n, lo, hi) ==
    LET top == Min2(hi, n)
    IN  IF lo >= top THEN <<>> ELSE [k \in 1..(top - lo) |-> lo + k - 1]

\* np.arange(self.n_samples)[rank * chunk_size : (rank + 1) * chunk_size]
LocalChunk(n, w, rank) ==
    ArangeSlice(n, rank * ChunkSize(n, w), (rank + 1) * ChunkSize(n, w))

\* comm.bcast(value, root): every rank receives the root's value
Bcast(valueOfRank, root) == valueOfRank[root]

\* self.x_chunk after `self.x_chunk = self.comm.bcast(self.x_chunk, root=0)`
InitChunk(n, w, rank) == Bcast([q \in 0..(w - 1) |-> LocalChunk(n, w, q)], 0)

\* One rank constructs its MuSIC_Interpreter.  The broadcasts of __init__ are
\* rooted at rank 0: another rank completes them once rank 0 has issued them.
Construct(r) ==
    /\ pc[r] = "new"
    /\ r # 0 => pc[0] # "new"
    /\ x_chunk' = [x_chunk EXCEPT ![r] = InitChunk(n_samples, comm_size, r)]
    /\ pc' = [pc EXCEPT ![r] = "loop"]
    /\ UNCHANGED <<dataVars, epVars, downstreamVars, tgt, sent, blocks, p_values_all, files>>

\* ------------------------------------------------ compute_coeff_significance
\* columns = [col for col in coef.columns if col.startswith("b_") and "intercept" not in col]
CoefColumns(coef) ==
    FilterSeq(coef.columns,
              [c \in {coef.columns[k] : k \in 1..Len(coef.columns)} |->
                  StartsWith(c, BPrefix) /\ ~Contains(c, InterceptName)])

\* se_feature_match = [c.replace("se_", "") for c in se.columns]
SeFeatureMatch(se) == [k \in 1..Len(se.columns) |-> Replace(se.columns[k], SePrefix, <<>>)]

\* feat_names_target = [col.replace("b_", "") for col in columns]
FeatNamesTarget(coef) ==
    [k \in 1..Len(CoefColumns(coef)) |-> Replace(CoefColumns(coef)[k], BPrefix, <<>>)]

\* Which branch of the loop body assigns local_p_values_all[i, j]
PBranch(se, match, obs, f) ==
    IF InList(f, match)
    THEN IF ColLoc(se, SeCol(f)) = 0 THEN "KeyError"
         ELSE IF Cell(se, obs, SeCol(f)) = 0 THEN "zero_se" ELSE "wald"
    ELSE "no_se_column"

\* The value assigned to local_p_values_all[i, j]
PEntry(coef, se, match, obs, f) ==
    IF PBranch(se, match, obs, f) = "wald"
    THEN wald_test(Cell(coef, obs, BCol(f)), Cell(se, obs, SeCol(f)))
    ELSE POne

\* A label lookup of the loop body raises KeyError
EntryRaises(coef, se, match, obs, f) ==
    \/ PBranch(se, match, obs, f) = "KeyError"
    \/ PBranch(se, match, obs, f) = "wald" /\ ColLoc(coef, BCol(f)) = 0

\* local_p_values_all: one row per entry of x_chunk, one column per feature
LocalPValues(chunk, coefAll, se, features) ==
    LET coef == SelectCols(coefAll, CoefColumns(coefAll))
        match == SeFeatureMatch(se)
    IN  [i \in 1..Len(chunk) |->
            [j \in 1..Len(features) |-> PEntry(coef, se, match, chunk[i], features[j])]]

LocalRaises(chunk, coefAll, se, features) ==
    LET coef == SelectCols(coefAll, CoefColumns(coefAll))
        match == SeFeatureMatch(se)
    IN  \E i \in 1..Len(chunk), j \in 1..Len(features) :
            EntryRaises(coef, se, match, chunk[i], features[j])

\* comm.gather(local, root=0) on the root: the blocks in rank order
Gather(blk, w) == [k \in 1..w |-> blk[k - 1]]

\* Faulty variant: one correction over the p-values of all observations pooled
QValuesPooled(pAll) ==
    LET width == IF pAll = <<>> THEN 0 ELSE Len(pAll[1])
        q == multitesting_correction(Concat(pAll))
    IN  [i \in 1..Len(pAll) |-> [j \in 1..width |-> q[(i - 1) * width + j]]]

\* qvals[i, :] = multitesting_correction(p_values_all[i, :], ...) for every row i
QValues(pAll) == [i \in 1..Len(pAll) |-> multitesting_correction(pAll[i])]

\* Faulty variant: the threshold itself counts as significant
IsSignificantAtMost(q, alpha) == [i \in 1..Len(q) |-> [j \in 1..Len(q[i]) |-> q[i][j] <= alpha]]

\* is_significant_df = q_values_df < significance_threshold
IsSignificant(q, alpha) == [i \in 1..Len(q) |-> [j \in 1..Len(q[i]) |-> q[i][j] < alpha]]

\* The three CSV files of a target before rank 0 has written them; an assembled
\* matrix always has at least the rows of rank 0's chunk, so <<>> means "not yet"
NoFiles == [p_values |-> <<>>, q_values |-> <<>>, is_significant |-> <<>>]

\* Faulty variant: the column selection written back into the stored frame
FramesAfterSelectInPlace(frames, name) ==
    [frames EXCEPT ![name] = SelectCols(@, CoefColumns(@))]

\* self.coeffs / self.standard_errors after `coef = self.coeffs[target]`,
\* `coef = coef[columns]` and `se = self.standard_errors[target]`: the selection
\* rebinds a local name to a new frame, the stored frames stay as they are.
FramesAfterSelect(frames, name) == frames

\* Has rank 0 issued the broadcasts of loop iteration t?
RootReached(t) == tgt[0] > t \/ (tgt[0] = t /\ pc[0] \in {"gather", "error"})

\* One iteration of the target loop on rank r up to the gather: receive (or issue)
\* the broadcasts, fill local_p_values_all and hand it to the gather.  A rank
\* other than 0 then goes on to the next target; rank 0 waits for the blocks.
SigLocal(r) ==
    /\ pc[r] = "loop"
    /\ r # 0 => RootReached(tgt[r])
    /\ LET t == tgt[r]
           coef == coeffs[TargetNames[t]]
           se == standard_errors[TargetNames[t]]
       IN  IF LocalRaises(x_chunk[r], coef, se, feature_names)
           THEN /\ pc' = [pc EXCEPT ![r] = "error"]
                /\ UNCHANGED <<tgt, sent, blocks>>
           ELSE /\ blocks' = [blocks EXCEPT ![t][r] =
                                 LocalPValues(x_chunk[r], coef, se, feature_names)]
                /\ sent' = [sent EXCEPT ![t] = @ \cup {r}]
                /\ IF r = 0
                   THEN pc' = [pc EXCEPT ![r] = "gather"] /\ UNCHANGED tgt
                   ELSE /\ tgt' = [tgt EXCEPT ![r] = t + 1]
                        /\ pc' = [pc EXCEPT ![r] = IF t = NTargets THEN "done" ELSE "loop"]
    /\ coeffs' = FramesAfterSelect(coeffs, TargetNames[tgt[r]])
    /\ standard_errors' = FramesAfterSelect(standard_errors, TargetNames[tgt[r]])
    /\ UNCHANGED <<inputVars, epVars, downstreamVars, x_chunk, p_values_all, files>>

\* Rank 0 after the gather: concatenate, correct each row, threshold, save.
\* pd.DataFrame(p_values_all, index=self.sample_names, ...) raises when the
\* number of rows is not the number of samples.
SigRoot ==
    /\ pc[0] = "gather"
    /\ sent[tgt[0]] = Ranks
    /\ LET t == tgt[0]
           pAll == Concat(Gather(blocks[t], comm_size))
           q == QValues(pAll)
       IN  /\ p_values_all' = [p_values_all EXCEPT ![t] = pAll]
           /\ IF Len(pAll) # n_samples
              THEN /\ pc' = [pc EXCEPT ![0] = "error"]
                   /\ UNCHANGED <<tgt, files>>
              ELSE /\ files' = [files EXCEPT ![t] =
                                  [p_values |-> pAll, q_values |-> q,
                                   is_significant |-> IsSignificant(q, significance_threshold)]]
                   /\ tgt' = [tgt EXCEPT ![0] = t + 1]
                   /\ pc' = [pc EXCEPT ![0] = IF t = NTargets THEN "done" ELSE "loop"]
    /\ UNCHANGED <<dataVars, epVars, downstreamVars, x_chunk, sent, blocks>>


\* ------------------------------------------------------ get_effect_potential
\* A matrix over cells is a function [sender -> [receiver -> value]].
\* Negligible-coefficient threshold 1e-2, in units of 1e-3
NegligibleCoef == 10

\* coeffs[coeffs.abs() < 1e-2] = 0, on every column of the frame
ZeroNegligible(df) ==
    [df EXCEPT !.rows = [i \in DOMAIN df.rows |->
        [k \in 1..Len(df.rows[i]) |->
            IF Abs(df.rows[i][k]) < NegligibleCoef THEN 0 ELSE df.rows[i][k]]]]

\* self.coeffs after `coeffs = self.coeffs[target]` and the assignment through
\* the boolean mask: `coeffs` is the stored frame itself, not a copy.
CoeffsAfterMask(cfs, target) == [cfs EXCEPT ![target] = ZeroNegligible(@)]

\* target_indicator = np.where(target_expr != 0, 1, 0)
TargetIndicator(target_expr) == [j \in DOMAIN target_expr |-> IF target_expr[j] # 0 THEN 1 ELSE 0]

\* Signaling type of a ligand in self.lr_db
LigandL == <<"L">>
LigandM == <<"M">>
ReceptorR == <<"R">>
ReceptorQR == <<"Q", "s", "e", "_", "R">>
Ligands == {LigandL, LigandM}
\* Two collagen ligands, and every ligand with an expression column
LigandCol1 == <<"C", "O", "L", "1">>
LigandCol4 == <<"C", "O", "L", "4">>
ExpressedLigands == Ligands \cup {LigandCol1, LigandCol4}
Receptors == {ReceptorR, ReceptorQR}
LrDbType(ligand) ==
    IF ligand = LigandL THEN "Secreted Signaling"
    ELSE IF ligand \in {LigandCol1, LigandCol4} THEN "ECM-Receptor"
    ELSE "Cell-Cell Contact"

\* Secreted and ECM-receptor ligands use the secreted weights, the others the
\* membrane-bound weights
WeightsFor(ligand, weights) ==
    IF LrDbType(ligand) \in {"Secreted Signaling", "ECM-Receptor"}
    THEN weights["secreted"]
    ELSE weights["membrane_bound"]

\* sparse.multiply by a column vector (one factor per sender row)
MultiplyRows(mat, col) == [i \in DOMAIN mat |-> [j \in DOMAIN mat[i] |-> mat[i][j] * col[i]]]

\* sparse.multiply by a row vector (one factor per receiver column)
MultiplyCols(mat, row) == [i \in DOMAIN mat |-> [j \in DOMAIN mat[i] |-> mat[i][j] * row[j]]]

\* f"b_{ligand}" for ligand models, f"b_{ligand}:{receptor}" for lr models
CoeffLabel(mt, ligand, receptor) ==
    IF mt = "ligand" THEN BCol(ligand) ELSE BCol(ligand \o <<":">> \o receptor)

\* The lr pair is one of self.lr_pairs or of self.feature_names
ValidLrPair(features, ligand, receptor) == InList(ligand \o <<":">> \o receptor, features)

\* Faulty variant: weighted by the target's expression instead of its 0/1 indicator
EffectPotentialByExpression(mt, weights, ligand_expr, receptor_expr, coeff, target_expr) ==
    LET sent_potential == MultiplyRows(weights, ligand_expr)
        sent_lr == IF mt = "lr" THEN MultiplyCols(sent_potential, receptor_expr)
                   ELSE sent_potential
    IN  MultiplyCols(MultiplyCols(sent_lr, coeff), target_expr)

\* effect_potential of lines 1054-1086 for a ligand or lr model
EffectPotential(mt, weights, ligand_expr, receptor_expr, coeff, target_expr) ==
    LET sent_potential == MultiplyRows(weights, ligand_expr)
        sent_lr == IF mt = "lr" THEN MultiplyCols(sent_potential, receptor_expr)
                   ELSE sent_potential
        sig_interm == MultiplyCols(sent_lr, coeff)
    IN  MultiplyCols(sig_interm, TargetIndicator(target_expr))

\* effect_potential.sum(axis=1) and .sum(axis=0)
RECURSIVE SumOver(_, _)
SumOver(f, S) == IF S = {} THEN 0 ELSE LET x == CHOOSE y \in S : TRUE IN f[x] + SumOver(f, S \ {x})
RowSums(mat) == [i \in DOMAIN mat |-> SumOver(mat[i], DOMAIN mat[i])]
ColSums(mat) == [j \in DOMAIN mat |-> SumOver([i \in DOMAIN mat |-> mat[i][j]], DOMAIN mat)]

SetMin(S) == CHOOSE x \in S : \A y \in S : x <= y
SetMax(S) == CHOOSE x \in S : \A y \in S : x >= y

\* Faulty variant: the sign of the raw sum is not put back
NormalizeSumsUnsigned(sums) ==
    LET a == [i \in DOMAIN sums |-> IF sums[i] < 0 THEN -sums[i] ELSE sums[i]]
        lo == CHOOSE x \in {a[i] : i \in DOMAIN sums} : \A i \in DOMAIN sums : x <= a[i]
        hi == CHOOSE x \in {a[i] : i \in DOMAIN sums} : \A i \in DOMAIN sums : x >= a[i]
    IN  [i \in DOMAIN sums |-> <<a[i] - lo, hi - lo>>]

\* A normalized score is the quotient <<numerator, denominator>> of the float
\* division; a zero denominator is 0/0, which numpy evaluates to NaN.
\* sign = np.where(s > 0, 1, -1); a = np.abs(s); (a - min(a)) / (max(a) - min(a)) * sign
NormalizeSums(sums) ==
    LET a == [i \in DOMAIN sums |-> Abs(sums[i])]
        lo == SetMin({a[i] : i \in DOMAIN sums})
        hi == SetMax({a[i] : i \in DOMAIN sums})
        sign == [i \in DOMAIN sums |-> IF sums[i] > 0 THEN 1 ELSE -1]
    IN  [i \in DOMAIN sums |-> <<(a[i] - lo) * sign[i], hi - lo>>]

InUnitRange(score) == score[2] > 0 /\ Abs(score[1]) <= score[2]
IsZero(score) == score[2] > 0 /\ score[1] = 0

\* effect_sign = np.where(coeff > 0, 1, -1)
EffectSign(coeff) == [j \in DOMAIN coeff |-> IF coeff[j] > 0 THEN 1 ELSE -1]

\* Keys of the columns stored in adata.obs
\* The ligand name as written into the adata.obs keys: shortened when it is a
\* '/'-joined list
StoredLigand(ligand) ==
    IF Contains(ligand, <<"/">>)
    THEN replace_hla_with_hlas(replace_col_with_collagens(ligand))
    ELSE ligand

SentKey(mt, ligand, target, receptor) ==
    <<"norm_sum_sent_effect_potential_">> \o StoredLigand(ligand) \o <<"_for_", target>>
        \o (IF mt = "lr" THEN <<"_via_">> \o receptor ELSE <<>>)
ReceivedKey(mt, ligand, target, receptor) ==
    <<"norm_sum_received_effect_potential_from_">> \o StoredLigand(ligand) \o <<"_for_", target>>
        \o (IF mt = "lr" THEN <<"_via_">> \o receptor ELSE <<>>)
EffectSignKey == <<"effect_sign">>

\* adata.obs[key] = value: the column is created or overwritten
ObsSet(obs, key, value) == (key :> value) @@ obs

\* The target of a call: the argument, else self.target_for_downstream, else
\* the first key of self.coeffs
ResolveTarget(arg) ==
    IF arg # None THEN arg
    ELSE IF target_for_downstream # None THEN target_for_downstream
    ELSE TargetNames[1]

\* What get_effect_potential computes from the stored coefficients `cfs` (the
\* frame of the target already masked in place) and the two weight matrices:
\* the error it raises, or the potential with its normalized sums and the
\* coefficient row it used.
CallOutcome(cfs, weights, target, ligand, receptor) ==
    LET idx == ColLoc(cfs[target], CoeffLabel(mod_type, ligand, receptor))
    IN  IF mod_type = "lr" /\ ~ValidLrPair(feature_names, ligand, receptor)
        THEN [status |-> "ValueError"]
        ELSE IF idx = 0
        THEN [status |-> "KeyError"]
        ELSE LET coeff == [j \in Obs |-> cfs[target].rows[j][idx]]
                 pot == EffectPotential(mod_type, WeightsFor(ligand, weights),
                                        ligands_expr_nonlag[ligand],
                                        IF mod_type = "lr"
                                        THEN receptors_expr[receptor] ELSE <<>>,
                                        coeff,
                                        targets_expr[target])
             IN  [status |-> "ok", target |-> target, ligand |-> ligand,
                  receptor |-> receptor, effect_potential |-> pot,
                  sender |-> NormalizeSums(RowSums(pot)),
                  receiver |-> NormalizeSums(ColSums(pot)),
                  coeff |-> coeff]

\* The record a successful call returns to its caller
Returned(out) ==
    [status |-> "ok", target |-> out.target, ligand |-> out.ligand,
     receptor |-> out.receptor, effect_potential |-> out.effect_potential,
     sender |-> out.sender, receiver |-> out.receiver]

\* adata.obs after the call stored its summed potentials (lines 1142-1188)
ObsAfterStore(obs, out) ==
    ObsSet(ObsSet(ObsSet(obs,
        SentKey(mod_type, out.ligand, out.target, out.receptor), out.sender),
        ReceivedKey(mod_type, out.ligand, out.target, out.receptor), out.receiver),
        EffectSignKey, EffectSign(out.coeff))

\* The body of get_effect_potential from line 1013 on, with the two weight
\* matrices it was given or has loaded
EffectPotentialCall(weights, targetArg, ligand, receptor, store) ==
    LET target == ResolveTarget(targetArg)
        masked == CoeffsAfterMask(coeffs, target)
        out == CallOutcome(masked, weights, target, ligand, receptor)
    IN  /\ coeffs' = masked
        /\ IF out.status # "ok"
           THEN /\ ret' = out
                /\ UNCHANGED adata_obs
           ELSE /\ ret' = Returned(out)
                /\ adata_obs' = IF store THEN ObsAfterStore(adata_obs, out) ELSE adata_obs

\* get_effect_potential(target, ligand, receptor, store_summed_potential) on a
\* ligand or lr model, with the spatial weights of the model run
GetEffectPotential(targetArg, ligand, receptor, store) ==
    /\ pc[0] # "new"
    /\ mod_type \in {"ligand", "lr"}
    /\ EffectPotentialCall(spatial_weights, targetArg, ligand, receptor, store)
    /\ UNCHANGED <<inputVars, standard_errors, sigVars, downstreamVars>>

\* ---------------------------------------------------- get_pathway_potential
\* The rows of self.lr_db: ligand ("from"), receptor ("to") and pathway
LrDbRows ==
    { [from |-> LigandL, to |-> ReceptorR, pathway |-> "P1"],
      [from |-> LigandM, to |-> ReceptorR, pathway |-> "P1"],
      [from |-> LigandM, to |-> ReceptorQR, pathway |-> "P1"],
      [from |-> LigandL, to |-> ReceptorQR, pathway |-> "P2"] }
Pathways == {row.pathway : row \in LrDbRows}

\* all_receivers = list(set(lr_db_subset["to"])), all_senders = list(set(lr_db_subset["from"]))
AllReceivers(pathway) == {row.to : row \in {x \in LrDbRows : x.pathway = pathway}}
AllSenders(pathway) == {row.from : row \in {x \in LrDbRows : x.pathway = pathway}}

\* self.design_matrix.columns of an lr model: one column per fitted interaction
DesignColumns == feature_names

\* valid_lr_combos: the (ligand, receptor) of every design-matrix column whose
\* receptor is a receptor of the pathway, in column order
ValidLrCombos(pathway) ==
    LET combo == [k \in 1..Len(DesignColumns) |->
                     <<Split(DesignColumns[k], ":")[1], Split(DesignColumns[k], ":")[2]>>]
        RECURSIVE Keep(_)
        Keep(k) == IF k > Len(DesignColumns) THEN <<>>
                   ELSE (IF combo[k][2] \in AllReceivers(pathway) THEN <<combo[k]>> ELSE <<>>)
                        \o Keep(k + 1)
    IN  Keep(1)

RECURSIVE SetToSeq(_)
\* list(set(...)): the elements in some order
SetToSeq(S) == IF S = {} THEN <<>> ELSE LET x == CHOOSE y \in S : TRUE
                                        IN  <<x>> \o SetToSeq(S \ {x})

\* The (ligand, receptor) arguments of the member calls, in call order
MemberCalls(pathway) ==
    IF mod_type = "lr" THEN ValidLrCombos(pathway)
    ELSE [k \in 1..Cardinality(AllSenders(pathway)) |->
             <<SetToSeq(AllSenders(pathway))[k], None>>]

\* pathway_sum_potential: the member potentials added up entry by entry
RECURSIVE SumPotentials(_)
SumPotentials(pots) ==
    IF Len(pots) = 1 THEN pots[1]
    ELSE LET rest == SumPotentials(Tail(pots))
         IN  [i \in DOMAIN pots[1] |-> [j \in DOMAIN pots[1][i] |-> pots[1][i][j] + rest[i][j]]]

\* (s - min(s)) / (max(s) - min(s)) as numerator and denominator
PathwayNormalize(sums) ==
    LET lo == SetMin({sums[i] : i \in DOMAIN sums})
        hi == SetMax({sums[i] : i \in DOMAIN sums})
    IN  [i \in DOMAIN sums |-> <<sums[i] - lo, hi - lo>>]

\* Keys of the columns get_pathway_potential stores in adata.obs
PathwaySendKey(pathway, target) ==
    <<"norm_sum_sent_effect_potential_", pathway,
      IF mod_type = "lr" THEN "_lr_for_" ELSE "_ligands_for_", target>>
PathwayReceiveKey(pathway, target) ==
    <<"norm_sum_received_effect_potential_", pathway,
      IF mod_type = "lr" THEN "_lr_for_" ELSE "_ligands_for_", target>>

\* target of get_pathway_potential: the configured target when none is given
\* and one is configured, in every other case the first key of self.coeffs
PathwayTarget(arg) ==
    IF arg = None /\ target_for_downstream # None THEN target_for_downstream
    ELSE TargetNames[1]

\* get_pathway_potential(pathway, target) with store_summed_potential=True.
\* pret.calls lists the get_effect_potential calls made, pret.stored tells
\* whether adata.obs was written.
GetPathwayPotential(pathwayArg, targetArg) ==
    /\ pc[0] # "new"
    /\ mod_type \in {"lr", "ligand"}
    /\ LET target == PathwayTarget(targetArg)
           pathway == pathway_for_downstream
           calls == MemberCalls(pathway)
           masked == CoeffsAfterMask(coeffs, target)
           outs == [k \in 1..Len(calls) |->
                       CallOutcome(masked, spatial_weights, target, calls[k][1], calls[k][2])]
           failed == {k \in 1..Len(calls) : outs[k].status # "ok"}
       IN  IF ~(pathwayArg = None /\ pathway_for_downstream # None)
           THEN /\ pret' = [status |-> "ValueError", message |-> "Must provide pathway to analyze.",
                            requested |-> pathwayArg, calls |-> <<>>, stored |-> FALSE]
                /\ UNCHANGED <<coeffs, adata_obs>>
           ELSE IF mod_type = "lr" /\ Len(calls) < 3
           THEN /\ pret' = [status |-> "ValueError", message |-> "fewer than three valid ligand-receptor pairs",
                            requested |-> pathway, calls |-> <<>>, stored |-> FALSE]
                /\ UNCHANGED <<coeffs, adata_obs>>
           ELSE IF calls = <<>>
           THEN /\ pret' = [status |-> "AttributeError", message |-> "pathway_sum_potential is None",
                            requested |-> pathway, calls |-> <<>>, stored |-> FALSE]
                /\ UNCHANGED <<coeffs, adata_obs>>
           ELSE IF failed # {}
           THEN /\ pret' = [status |-> outs[SetMin(failed)].status, message |-> "raised by get_effect_potential",
                            requested |-> pathway,
                            calls |-> SubSeq(calls, 1, SetMin(failed)), stored |-> FALSE]
                /\ coeffs' = masked
                /\ UNCHANGED adata_obs
           ELSE LET total == SumPotentials([k \in 1..Len(calls) |-> outs[k].effect_potential])
                    sender == PathwayNormalize(RowSums(total))
                    receiver == PathwayNormalize(ColSums(total))
                IN  /\ pret' = [status |-> "ok", message |-> "", requested |-> pathway,
                                calls |-> calls, stored |-> TRUE, target |-> target,
                                pathway_sum_potential |-> total,
                                sender |-> sender, receiver |-> receiver]
                    /\ coeffs' = masked
                    /\ adata_obs' = ObsSet(ObsSet(adata_obs,
                                        PathwaySendKey(pathway, target), sender),
                                        PathwayReceiveKey(pathway, target), receiver)
    /\ UNCHANGED <<inputVars, standard_errors, sigVars, ret, pathway_for_downstream,
                    coords, top_k, adata_obsm, vret, vf_args, cacheVars>>

\* ---------------------------------------------------------- define_effect_vf
\* A float is the quotient <<numerator, denominator>>; denominator 0 is NaN.
\* max_val = 0.05 = 1 / MaxValInverse
MaxValInverse == 20

Sign(x) == IF x > 0 THEN 1 ELSE IF x < 0 THEN -1 ELSE 0

\* np.zeros_like(self.coords)[i, :]
ZeroVector == <<<<0, 1>>, <<0, 1>>>>

\* effect_potential_lil.rows[i]: the columns of the stored (nonzero) entries
StoredEntries(vals) == {j \in DOMAIN vals : vals[j] # 0}

RECURSIVE ArgsortDescending(_, _)
\* np.argsort(-data): the entries by decreasing value (equal values in index order)
ArgsortDescending(vals, S) ==
    IF S = {} THEN <<>>
    ELSE LET best == CHOOSE j \in S :
                        \A j2 \in S : vals[j] > vals[j2] \/ (vals[j] = vals[j2] /\ j <= j2)
         IN  <<best>> \o ArgsortDescending(vals, S \ {best})

RECURSIVE Ascending(_)
Ascending(S) == IF S = {} THEN <<>> ELSE <<SetMin(S)>> \o Ascending(S \ {SetMin(S)})

\* temp_idx: every stored entry when there are at most k, else the first k of
\* the argsort of the negated values
TempIdx(vals, k) ==
    IF Cardinality(StoredEntries(vals)) <= k
    THEN Ascending(StoredEntries(vals))
    ELSE SubSeq(ArgsortDescending(vals, StoredEntries(vals)), 1, k)

\* normalize(v, norm="l2") of a vector on the line y = 0: its direction along x
\* (a zero vector stays zero)
Normalize(v) == <<Sign(v[1]), 0>>

\* avg_v after the final normalize: towards the single neighbour, or the
\* value-weighted sum of the unit vectors towards the neighbours
AvgDirection(idx, vals, i) ==
    IF Len(idx) = 1
    THEN Normalize(<<coords[idx[1]][1] - coords[i][1], coords[idx[1]][2] - coords[i][2]>>)
    ELSE LET unit == [n \in 1..Len(idx) |->
                        Normalize(<<coords[idx[n]][1] - coords[i][1],
                                    coords[idx[n]][2] - coords[i][2]>>)]
             RECURSIVE Weighted(_)
             Weighted(n) == IF n > Len(idx) THEN 0
                            ELSE unit[n][1] * vals[idx[n]] + Weighted(n + 1)
         IN  Normalize(<<Weighted(1), 0>>)

\* avg_v[0, :] * normalized_sum[i]
Scale(v, score) == <<<<v[1] * score[1], score[2]>>, <<v[2] * score[1], score[2]>>>>

\* Faulty variant: a cell without stored entries is not skipped
FieldRowNoSkip(idx, vals, i, score) == Scale(AvgDirection(idx, vals, i), score)

\* sending_vf[i, :] / receiving_vf[i, :] before the clip: left at zero when the
\* cell has no stored entry (`continue`)
FieldRow(idx, vals, i, score) ==
    IF Len(idx) = 0 THEN ZeroVector ELSE Scale(AvgDirection(idx, vals, i), score)

\* np.clip(x, -max_val, max_val) of one component; NaN stays NaN
Clip(x) ==
    IF x[2] = 0 THEN x
    ELSE IF x[1] * MaxValInverse > x[2] THEN <<1, MaxValInverse>>
    ELSE IF x[1] * MaxValInverse < -x[2] THEN <<-1, MaxValInverse>>
    ELSE x
ClipVector(v) == <<Clip(v[1]), Clip(v[2])>>

\* Column i of the potential: effect_potential.T row i
Transposed(mat) == [j \in DOMAIN mat |-> [i \in DOMAIN mat |-> mat[i][j]]]

\* The outcome of define_effect_vf: the entries used for every cell, the fields
\* before the clip and the clipped fields that are stored
VfOutcome(pot, sender, receiver, k) ==
    LET used_s == [i \in DOMAIN pot |-> TempIdx(pot[i], k)]
        used_r == [i \in DOMAIN pot |-> TempIdx(Transposed(pot)[i], k)]
        raw_s == [i \in DOMAIN pot |-> FieldRow(used_s[i], pot[i], i, sender[i])]
        raw_r == [i \in DOMAIN pot |-> FieldRow(used_r[i], Transposed(pot)[i], i, receiver[i])]
    IN  [status |-> "ok", effect_potential |-> pot, k |-> k,
         used_sending |-> used_s, used_receiving |-> used_r,
         unclipped_sending |-> raw_s, unclipped_receiving |-> raw_r,
         sending_vf |-> [i \in DOMAIN pot |-> ClipVector(raw_s[i])],
         receiving_vf |-> [i \in DOMAIN pot |-> ClipVector(raw_r[i])]]

\* Keys of the fields stored in adata.obsm
StoredSig(sig) == replace_hla_with_hlas(replace_col_with_collagens(sig))
SenderVfKey(sig, target) == <<"spatial_effect_sender_vf_", StoredSig(sig), "_", target>>
ReceiverVfKey(sig, target) == <<"spatial_effect_receiver_vf_", StoredSig(sig), "_", target>>

\* self.adata.obsm after define_effect_vf stored both fields
ObsmAfterVf(obsm, out, sig, target) ==
    (SenderVfKey(sig, target) :> out.sending_vf)
        @@ (ReceiverVfKey(sig, target) :> out.receiving_vf) @@ obsm

\* define_effect_vf(effect_potential, normalized sums, sig, target) with the
\* default max_val
DefineEffectVf(pot, sender, receiver, sig, target) ==
    /\ pc[0] # "new"
    /\ vret' = VfOutcome(pot, sender, receiver, top_k)
    /\ adata_obsm' = ObsmAfterVf(adata_obsm, VfOutcome(pot, sender, receiver, top_k), sig, target)
    /\ UNCHANGED <<dataVars, sigVars, epVars, pathway_for_downstream, pret, coords, top_k,
                    vf_args, cacheVars>>

\* ------------------------------------------- cached spatial weights, directions

WeightClasses == {"membrane_bound", "secreted"}

\* A weights file of the spatial_weights directory: absent, or holding a matrix
Absent == [present |-> FALSE]
Stored(mat) == [present |-> TRUE, weights |-> mat]

\* Adaptive bandwidth of cell i: the distance to its k-th nearest other cell
\* (cells lie on a line at unit spacing; the farthest cell when fewer than k)
KthDistance(n, i, k) ==
    LET others(d) == Cardinality({j \in 0..(n - 1) : j # i /\ Abs(i - j) <= d})
    IN  SetMin({d \in 0..n : others(d) >= Min2(k, n - 1)})

\* _compute_all_wi(bw, bw_fixed, exclude_self): a kernel falling linearly from
\* its maximum at distance 0 to zero beyond the bandwidth; bw is a distance when
\* bw_fixed and a neighbour count otherwise; exclude_self zeroes the diagonal
ComputeAllWi(n, bw, bw_fixed, exclude_self) ==
    [i \in 0..(n - 1) |-> [j \in 0..(n - 1) |->
        LET h == IF bw_fixed THEN bw ELSE KthDistance(n, i, bw)
            d == Abs(i - j)
        IN  IF d = 0 THEN (IF exclude_self THEN 0 ELSE h + 1)
            ELSE IF d <= h THEN h + 1 - d ELSE 0]]

\* The weights get_effect_potential computes when a file cannot be loaded
PotentialFallback(c) ==
    IF c = "membrane_bound"
    THEN ComputeAllWi(n_samples, bandwidths.n_neighbors_membrane_bound, FALSE, TRUE)
    ELSE ComputeAllWi(n_samples, bandwidths.n_neighbors_secreted, FALSE, TRUE)

\* The weights inferred_effect_direction computes when a file cannot be loaded
DirectionFallback(c) ==
    IF c = "membrane_bound"
    THEN LET bw_mb == IF bandwidths.distance_membrane_bound = 0
                      THEN bandwidths.n_neighbors_membrane_bound
                      ELSE bandwidths.distance_membrane_bound
             bw_fixed == bandwidths.distance_membrane_bound # 0
         IN  ComputeAllWi(n_samples, bw_mb, bw_fixed, TRUE)
    ELSE LET bw_s == IF bandwidths.distance_secreted = 0
                     THEN bandwidths.n_neighbors_membrane_bound
                     ELSE bandwidths.distance_secreted
             bw_fixed == bandwidths.distance_secreted # 0
         IN  ComputeAllWi(n_samples, bw_s, bw_fixed, FALSE)

\* get_effect_potential called without weight matrices: each class is loaded
\* from its file, or computed when the file is missing; nothing is written
GetEffectPotentialNoWeights(targetArg, ligand, receptor, store) ==
    /\ pc[0] # "new"
    /\ mod_type \in {"ligand", "lr"}
    /\ LET missing == {c \in WeightClasses : ~cache[c].present}
           weights == [c \in WeightClasses |->
                          IF cache[c].present THEN cache[c].weights ELSE PotentialFallback(c)]
           target == ResolveTarget(targetArg)
           out == CallOutcome(CoeffsAfterMask(coeffs, target), weights, target, ligand, receptor)
       IN  /\ EffectPotentialCall(weights, targetArg, ligand, receptor, store)
           /\ wret' = [op |-> "get_effect_potential", recomputed |-> missing,
                       weights |-> weights, completed |-> out.status = "ok"]
    /\ UNCHANGED <<inputVars, standard_errors, sigVars, pathway_for_downstream, pret, coords,
                    top_k, adata_obsm, vret, vf_args, bandwidths, cache, dret>>

\* The targets inferred_effect_direction loops over (filter_targets off)
DirectionTargets(targetsArg) ==
    LET targets == IF target_for_downstream # None THEN target_for_downstream ELSE targetsArg
    IN  IF targets = None THEN TargetNames ELSE <<targets>>

\* Pathways named by at least three of the model's ligands
DirectionPathways ==
    LET col_pathways(query) == {row.pathway : row \in {x \in LrDbRows : x.from = query}}
        count(p) == Cardinality({q \in DOMAIN feature_names : p \in col_pathways(feature_names[q])})
    IN  {p \in Pathways : count(p) >= 3}

\* targets x queries in loop order
RECURSIVE DirectionPairs(_, _)
DirectionPairs(targets, queries) ==
    IF targets = <<>> THEN <<>>
    ELSE [q \in DOMAIN queries |-> [target |-> Head(targets), query |-> queries[q]]]
             \o DirectionPairs(Tail(targets), queries)

\* Faulty variant: the vector field of a query is built from the potential
\* returned for the query before it
RECURSIVE DirectionLoopStaleField(_, _, _)
DirectionLoopStaleField(pairs, weights, st) ==
    IF pairs = <<>> \/ st.status # "ok" THEN st
    ELSE LET target == Head(pairs).target
             query == Head(pairs).query
             masked == CoeffsAfterMask(st.coeffs, target)
             out == CallOutcome(masked, weights, target, query, None)
             prev == IF st.done = <<>> THEN out ELSE st.ret
         IN  IF out.status # "ok"
             THEN [st EXCEPT !.status = out.status, !.coeffs = masked, !.ret = out]
             ELSE LET vf == VfOutcome(prev.effect_potential, prev.sender, prev.receiver, top_k)
                  IN  DirectionLoopStaleField(Tail(pairs), weights,
                          [status |-> "ok", coeffs |-> masked, ret |-> Returned(out),
                           obs |-> ObsAfterStore(st.obs, out), vret |-> vf,
                           obsm |-> ObsmAfterVf(st.obsm, vf, query, target),
                           done |-> Append(st.done, Head(pairs))])

\* One pass of the loop body per pair: get_effect_potential with the given
\* weights (storing the summed potentials), then define_effect_vf
RECURSIVE DirectionLoop(_, _, _)
DirectionLoop(pairs, weights, st) ==
    IF pairs = <<>> \/ st.status # "ok" THEN st
    ELSE LET target == Head(pairs).target
             query == Head(pairs).query
             masked == CoeffsAfterMask(st.coeffs, target)
             out == CallOutcome(masked, weights, target, query, None)
         IN  IF out.status # "ok"
             THEN [st EXCEPT !.status = out.status, !.coeffs = masked, !.ret = out]
             ELSE LET vf == VfOutcome(out.effect_potential, out.sender, out.receiver, top_k)
                  IN  DirectionLoop(Tail(pairs), weights,
                          [status |-> "ok", coeffs |-> masked, ret |-> Returned(out),
                           obs |-> ObsAfterStore(st.obs, out), vret |-> vf,
                           obsm |-> ObsmAfterVf(st.obsm, vf, query, target),
                           done |-> Append(st.done, Head(pairs))])

\* inferred_effect_direction(targets, compute_pathway_effect)
InferredEffectDirection(targetsArg, compute_pathway_effect) ==
    /\ pc[0] # "new"
    /\ IF ~(mod_type = "ligand") \/ mod_type = "lr"
       THEN /\ dret' = [status |-> "ValueError",
                        message |-> "Direction of effect can only be inferred if ligand expression is used as part of the model."]
            /\ UNCHANGED <<coeffs, epVars, adata_obsm, vret, cache, wret>>
       ELSE LET loaded == \A c \in WeightClasses : cache[c].present
                weights == [c \in WeightClasses |->
                               IF loaded THEN cache[c].weights ELSE DirectionFallback(c)]
                saved == IF loaded THEN cache ELSE [c \in WeightClasses |-> Stored(weights[c])]
                used == [op |-> "inferred_effect_direction",
                         recomputed |-> IF loaded THEN {} ELSE WeightClasses,
                         weights |-> weights, completed |-> TRUE]
            IN  IF compute_pathway_effect /\ DirectionPathways # {}
                THEN \* get_pathway_potential raises for a pathway passed by the caller
                     /\ dret' = [status |-> "ValueError",
                                 message |-> "Must provide pathway to analyze."]
                     /\ cache' = saved
                     /\ wret' = [used EXCEPT !.completed = FALSE]
                     /\ UNCHANGED <<coeffs, epVars, adata_obsm, vret>>
                ELSE LET queries == IF compute_pathway_effect THEN <<>> ELSE feature_names
                         end == DirectionLoop(DirectionPairs(DirectionTargets(targetsArg), queries),
                                    weights,
                                    [status |-> "ok", coeffs |-> coeffs, ret |-> ret,
                                     obs |-> adata_obs, vret |-> vret, obsm |-> adata_obsm,
                                     done |-> <<>>])
                     IN  /\ coeffs' = end.coeffs
                         /\ ret' = end.ret
                         /\ adata_obs' = end.obs
                         /\ vret' = end.vret
                         /\ adata_obsm' = end.obsm
                         /\ cache' = saved
                         /\ wret' = [used EXCEPT !.completed = (end.status = "ok")]
                         /\ dret' = [status |-> end.status, message |-> "", done |-> end.done]
    /\ UNCHANGED <<inputVars, standard_errors, sigVars, pathway_for_downstream, pret, coords,
                    top_k, vf_args, bandwidths>>

\* ------------------------------------------------------------------- STGWR

\* get_wi(i, n_samples, coords, fixed_bw, kernel, bw): the kernel weights of
\* observation i, self included
get_wi(i, n, fixed_bw, bw) == ComputeAllWi(n, bw, fixed_bw, FALSE)[i]

InvalidModType == "Invalid `mod_type` specified. Must be one of 'niche', 'slice', or 'lr'."

\* The configuration parse_stgwr_args leaves on a new instance (normalize,
\* smooth and log_transform off, species 'human'); n is adata.n_obs of the file
StgwrNew(mt, distr, bw, bw_fixed, n) ==
    [pc |-> "new", mod_type |-> mt, distr |-> distr, bw |-> bw, bw_fixed |-> bw_fixed,
     adata_n_obs |-> n, n_samples |-> 0, log |-> <<>>, prepared |-> {},
     w |-> <<>>, all_spatial_weights |-> <<>>, fit |-> [status |-> "none"]]

PoolIdle == [pending |-> {}, completed |-> <<>>, results |-> <<>>]

\* No STGWR run is under way
StgwrIdle ==
    /\ stgwr = StgwrNew("lr", "gaussian", 1, FALSE, 1)
    /\ pool = PoolIdle

\* The arrays load_and_process prepares for a mod_type, and what it logs as error
PreparedFor(mt) ==
    (IF mt = "niche" \/ mt = "slice" THEN {"cell_categories"} ELSE {})
        \cup (IF mt = "lr" \/ mt = "slice" THEN {"ligands_expr", "receptors_expr"} ELSE {})
ErrorsFor(mt) == IF mt = "lr" \/ mt = "slice" THEN <<>> ELSE <<InvalidModType>>

\* load_and_process up to the point where _compute_all_wi has allocated w and
\* handed one task per observation to the pool
LoadAndProcess ==
    /\ stgwr.pc = "new"
    /\ stgwr' = [stgwr EXCEPT !.pc = "pool",
                              !.n_samples = stgwr.adata_n_obs,
                              !.prepared = PreparedFor(stgwr.mod_type),
                              !.log = stgwr.log \o ErrorsFor(stgwr.mod_type),
                              !.w = [i \in 0..(stgwr.adata_n_obs - 1) |->
                                        [j \in 0..(stgwr.adata_n_obs - 1) |-> 0]]]
    /\ pool' = [pending |-> 0..(stgwr.adata_n_obs - 1), completed |-> <<>>, results |-> <<>>]
    /\ UNCHANGED <<interpreterVars, permuted, group_name, cret>>

\* A pool worker finishes the task of observation i
PoolTask(i) ==
    /\ stgwr.pc = "pool"
    /\ i \in pool.pending
    /\ pool' = [pending |-> pool.pending \ {i},
                completed |-> Append(pool.completed, i),
                results |-> (i :> get_wi(i, stgwr.n_samples, stgwr.bw_fixed, stgwr.bw))
                                @@ pool.results]
    /\ UNCHANGED <<stgwr, interpreterVars, permuted, group_name, cret>>

\* Faulty variant: the results are listed in the order the tasks completed
PoolMapAsCompleted(results, completed, n) ==
    [k \in 0..(n - 1) |-> results[completed[k + 1]]]

\* pool.map: the list of results in the order of the submitted task ids
PoolMap(results, completed, n) == [k \in 0..(n - 1) |-> results[k]]

\* pool.map returns, the rows are copied into w, load_and_process stores w
PoolMapReturns ==
    /\ stgwr.pc = "pool"
    /\ pool.pending = {}
    /\ LET weights == PoolMap(pool.results, pool.completed, stgwr.n_samples)
           w == [i \in 0..(stgwr.n_samples - 1) |-> weights[i]]
       IN  stgwr' = [stgwr EXCEPT !.pc = "loaded", !.w = w, !.all_spatial_weights = w]
    /\ UNCHANGED <<pool, interpreterVars, permuted, group_name, cret>>

\* The class body defines no _get_wi method
HasGetWi == FALSE

\* The solver call of each family, as the list of the arguments it is given
compute_betas_local(y, X, wi) == [solver |-> "compute_betas_local", y |-> y, X |-> X, wi |-> wi]
iwls(y, X, distr, init_betas) ==
    [solver |-> "iwls", y |-> y, X |-> X, distr |-> distr, init_betas |-> init_betas]

\* _local_fit(i)
LocalFit(i) ==
    /\ stgwr.pc = "loaded"
    /\ i \in 0..(stgwr.n_samples - 1)
    /\ stgwr' = [stgwr EXCEPT !.fit =
          IF ~HasGetWi
          THEN [status |-> "AttributeError", i |-> i, message |-> "_get_wi"]
          ELSE LET wi == get_wi(i, stgwr.n_samples, stgwr.bw_fixed, stgwr.bw)
               IN  IF stgwr.distr = "gaussian"
                   THEN [status |-> "ok", i |-> i, call |-> compute_betas_local("y", "X", wi)]
                   ELSE IF stgwr.distr = "poisson" \/ stgwr.distr = "nb"
                   THEN [status |-> "ok", i |-> i,
                         call |-> iwls("y", "X", stgwr.distr, "init_betas")]
                   ELSE [status |-> "ok", i |-> i, call |-> [solver |-> "none"]]]
    /\ UNCHANGED <<pool, interpreterVars, permuted, group_name, cret>>

\* --------------------------------------------------------- permutation_test

MaxPerms == 2

\* np.random.permutation(gene_data) under the rearrangement p
PermuteAll(data, p) == [i \in DOMAIN data |-> data[p[i]]]

\* The expressing cells are rearranged among themselves by p, the others keep 0
PermuteNonzeros(data, p) ==
    LET nonzero_indices == {i \in DOMAIN data : data[i] # 0}
    IN  [i \in DOMAIN data |-> IF i \in nonzero_indices THEN data[p[i]] ELSE data[i]]

\* One permuted vector, as the branch taken for permute_nonzeros_only builds it
PermutedVector(data, permute_nonzeros_only, p) ==
    IF permute_nonzeros_only THEN PermuteAll(data, p) ELSE PermuteNonzeros(data, p)

\* The rearrangements np.random.permutation can draw in a branch
DrawsFor(data, permute_nonzeros_only) ==
    IF permute_nonzeros_only THEN Permutations(DOMAIN data)
    ELSE {p \in Permutations(DOMAIN data) : \A i \in DOMAIN data : data[i] = 0 => p[i] = i}

PermutedIdle == permuted = [status |-> "none"]

\* permutation_test(gene, n_permutations, permute_nonzeros_only) up to the
\* hand-over to the permutation model: the permuted AnnData is written, then
\* the receptor/pathway file check raises (AttributeError from str.isin when
\* the path attribute exists, ValueError otherwise)
PermutationTest(gene, n_permutations, permute_nonzeros_only, has_custom_receptors_path) ==
    /\ pc[0] # "new"
    /\ \E draws \in [1..n_permutations -> DrawsFor(targets_expr[gene], permute_nonzeros_only)] :
          permuted' =
             [status |-> IF has_custom_receptors_path THEN "AttributeError" ELSE "ValueError",
              gene |-> gene,
              permuted_nonzeros_only |-> permute_nonzeros_only,
              gene_data |-> targets_expr[gene],
              permuted_data_list |->
                  <<targets_expr[gene]>> \o
                      [k \in 1..n_permutations |->
                          PermutedVector(targets_expr[gene], permute_nonzeros_only, draws[k])],
              perm_names |->
                  <<<<gene, "_nonpermuted">>>> \o
                      [k \in 1..n_permutations |-> <<gene, "_permuted_", k - 1>>]]
    /\ UNCHANGED <<interpreterVars, stgwr, pool, group_name, cret>>

\* ------------------------------------------------ compute_cell_type_coupling

\* Coefficients and potentials are counted in units of 1e-3 (CoefOne stands for
\* 1.0); the threshold, a float, is kept to six decimal places as
\* <<numerator, FloatOne>>, a denominator of 0 is nan and <<>> stands for None
CoefOne == 100 * NegligibleCoef
FloatOne == CoefOne * CoefOne
NoThreshold == <<>>
NanValue == <<0, 0>>

\* effect_strength_threshold = 0.2: the value that replaces any given one
DefaultThreshold == <<FloatOne \div 5, FloatOne>>

\* The cell type labels, in sorted order
GroupLabels == <<"A", "B">>

\* self.cell_categories.columns: the labels in use, sorted
CellCategoryColumns ==
    SelectSeq(GroupLabels, LAMBDA g : \E i \in Obs : group_name[i] = g)

\* itertools.product of the columns with themselves; "S-R" is kept as the
\* pair its split("-") gives back (labels hold no "-")
celltype_pairs ==
    LET m == Len(CellCategoryColumns)
    IN  [k \in 1..(m * m) |->
            [sending |-> CellCategoryColumns[((k - 1) \div m) + 1],
             receiving |-> CellCategoryColumns[((k - 1) % m) + 1]]]

\* np.where(self.cell_categories[cell_type] == 1)[0]
IndicesOfType(cell_type) == {i \in Obs : group_name[i] = cell_type}

\* self.lr_pairs: the (ligand, receptor) tuples of the model's features
LrPairs == [k \in 1..Len(feature_names) |-> Split(feature_names[k], ":")]

\* cols of line 3485, each with the ligand and receptor handed on
CouplingCols ==
    IF mod_type = "lr"
    THEN [k \in 1..Len(LrPairs) |-> [ligand |-> LrPairs[k][1], receptor |-> LrPairs[k][2]]]
    ELSE [k \in 1..Len(feature_names) |-> [ligand |-> feature_names[k], receptor |-> None]]

\* targets of lines 3440-3443 (filter_targets off)
CouplingTargets(targetsArg) == IF targetsArg = None THEN TargetNames ELSE <<targetsArg>>

\* The (target, col) passes of the two outer loops, in order
CouplingPasses(targets) ==
    LET m == Len(CouplingCols)
    IN  [k \in 1..(Len(targets) * m) |->
            [target |-> targets[((k - 1) \div m) + 1], col |-> CouplingCols[((k - 1) % m) + 1]]]

\* The weights compute_cell_type_coupling computes when a file cannot be loaded
CouplingFallback(c) ==
    IF c = "membrane_bound"
    THEN LET bw_mb == IF bandwidths.distance_membrane_bound = 0
                      THEN bandwidths.n_neighbors_membrane_bound
                      ELSE bandwidths.distance_membrane_bound
             bw_fixed == bandwidths.distance_membrane_bound # 0
         IN  ComputeAllWi(n_samples, bw_mb, bw_fixed, TRUE)
    ELSE LET bw_s == IF bandwidths.distance_secreted = 0
                     THEN bandwidths.n_neighbors_membrane_bound
                     ELSE bandwidths.distance_secreted
             bw_fixed == bandwidths.distance_secreted # 0
         IN  ComputeAllWi(n_samples, bw_s, bw_fixed, FALSE)

\* effect_potential.data in increasing order: the stored (nonzero) entries
RECURSIVE SortedData(_, _)
SortedData(pot, S) ==
    IF S = {} THEN <<>>
    ELSE LET least == CHOOSE e \in S : \A e2 \in S : pot[e[1]][e[2]] <= pot[e2[1]][e2[2]]
         IN  <<pot[least[1]][least[2]]>> \o SortedData(pot, S \ {least})
PotentialData(pot) ==
    SortedData(pot, {e \in (DOMAIN pot) \X (DOMAIN pot) : pot[e[1]][e[2]] # 0})

\* np.percentile(data, q * 100) with linear interpolation: an error for q
\* outside [0, 1] (nan included); on no data, nan or an IndexError according
\* to the NumPy release (empty_nan)
Percentile(data, q, empty_nan) ==
    IF q[2] = 0 \/ q[1] < 0 \/ q[1] > q[2]
    THEN [status |-> "ValueError", value |-> NanValue]
    ELSE IF data = <<>>
    THEN IF empty_nan THEN [status |-> "ok", value |-> NanValue]
         ELSE [status |-> "IndexError", value |-> NanValue]
    ELSE LET pos == q[1] * (Len(data) - 1)
             lo == (pos \div FloatOne) + 1
             part == pos % FloatOne
             below == data[lo] * (FloatOne \div CoefOne)
         IN  [status |-> "ok",
              value |-> IF part = 0 THEN <<below, FloatOne>>
                        ELSE <<below + ((part * (data[lo + 1] - data[lo])) \div CoefOne),
                               FloatOne>>]

\* effect_potential > threshold, entry by entry (never true against nan)
StrongEffect(pot, cut, i, j) ==
    cut[2] # 0 /\ pot[i][j] * (FloatOne \div CoefOne) > cut[1]

\* np.mean(effect_potential[sending_indices, receiving_indices]): the two index
\* lists are paired element by element (one of length 1 is repeated); other
\* lengths cannot be paired. The mean is <<sum, count>>.
PairedMean(pot, sending, receiving) ==
    LET s == Ascending(sending)
        r == Ascending(receiving)
        len == IF Len(s) >= Len(r) THEN Len(s) ELSE Len(r)
        at(q, k) == IF Len(q) = 1 THEN q[1] ELSE q[k]
    IN  IF Len(s) # Len(r) /\ Len(s) # 1 /\ Len(r) # 1
        THEN [status |-> "IndexError", mean |-> NanValue]
        ELSE [status |-> "ok",
              mean |-> <<SumOver([k \in 1..len |-> pot[at(s, k)][at(r, k)]], 1..len), len>>]

\* The loop over the cell type pairs for one (target, col): with a threshold
\* in an lr model, effect_strength_threshold is reassigned to the percentile
\* value and the cells are restricted to rows and columns above it; the
\* average is then taken and recorded (its permutation p-value is random and
\* left out)
RECURSIVE PairLoop(_, _, _, _, _)
PairLoop(pass, pot, pairs, empty_nan, st) ==
    IF pairs = <<>> \/ st.status # "ok" THEN st
    ELSE LET pair == Head(pairs)
             filtered == mod_type = "lr" /\ st.threshold # NoThreshold
             data == PotentialData(pot)
             cut == IF filtered THEN Percentile(data, st.threshold, empty_nan)
                    ELSE [status |-> "ok", value |-> NanValue]
             rem_row == {i \in DOMAIN pot : \E j \in DOMAIN pot : StrongEffect(pot, cut.value, i, j)}
             rem_col == {j \in DOMAIN pot : \E i \in DOMAIN pot : StrongEffect(pot, cut.value, i, j)}
             sending == IF filtered THEN IndicesOfType(pair.sending) \cap rem_row
                        ELSE IndicesOfType(pair.sending)
             receiving == IF filtered THEN IndicesOfType(pair.receiving) \cap rem_col
                          ELSE IndicesOfType(pair.receiving)
             skipped == mod_type = "lr" /\ (sending = {} \/ receiving = {})
             avg == IF skipped THEN [status |-> "ok", mean |-> <<0, 1>>]
                    ELSE PairedMean(pot, sending, receiving)
             entry == [target |-> pass.target, col |-> pass.col, pair |-> pair,
                       filtered |-> filtered, data |-> data, percentile |-> st.threshold,
                       cutoff |-> cut.value, ct_coupling |-> avg.mean]
         IN  IF cut.status # "ok" THEN [st EXCEPT !.status = cut.status]
             ELSE IF avg.status # "ok"
             THEN [st EXCEPT !.status = avg.status,
                             !.threshold = IF filtered THEN cut.value ELSE @]
             ELSE PairLoop(pass, pot, Tail(pairs), empty_nan,
                      [st EXCEPT !.trace = Append(@, entry),
                                 !.threshold = IF filtered THEN cut.value ELSE @])

\* The two outer loops: get_effect_potential with the given weights (storing
\* the summed potentials), then the loop over the cell type pairs
RECURSIVE CouplingLoop(_, _, _, _)
CouplingLoop(passes, weights, empty_nan, st) ==
    IF passes = <<>> \/ st.status # "ok" THEN st
    ELSE LET pass == Head(passes)
             masked == CoeffsAfterMask(st.coeffs, pass.target)
             out == CallOutcome(masked, weights, pass.target, pass.col.ligand, pass.col.receptor)
         IN  IF out.status # "ok"
             THEN [st EXCEPT !.status = out.status, !.coeffs = masked, !.ret = out]
             ELSE CouplingLoop(Tail(passes), weights, empty_nan,
                      PairLoop(pass, out.effect_potential, celltype_pairs, empty_nan,
                          [st EXCEPT !.coeffs = masked, !.ret = Returned(out),
                                     !.obs = ObsAfterStore(st.obs, out)]))

CouplingIdle ==
    /\ group_name = <<>>
    /\ cret = [status |-> "none"]

\* compute_cell_type_coupling(targets, effect_strength_threshold) of an lr or
\* ligand model; `given` tells whether a threshold was passed
ComputeCellTypeCoupling(targetsArg, given, empty_nan) ==
    /\ pc[0] # "new"
    /\ mod_type \in {"lr", "ligand"}
    /\ LET effect_strength_threshold == IF given THEN DefaultThreshold ELSE NoThreshold
           loaded == \A c \in WeightClasses : cache[c].present
           weights == [c \in WeightClasses |->
                          IF loaded THEN cache[c].weights ELSE CouplingFallback(c)]
       IN  \E end \in {CouplingLoop(CouplingPasses(CouplingTargets(targetsArg)), weights, empty_nan,
                           [status |-> "ok", coeffs |-> coeffs, ret |-> ret, obs |-> adata_obs,
                            threshold |-> effect_strength_threshold, trace |-> <<>>])} :
           /\ coeffs' = end.coeffs
           /\ ret' = end.ret
           /\ adata_obs' = end.obs
           /\ cache' = IF loaded THEN cache ELSE [c \in WeightClasses |-> Stored(weights[c])]
           /\ wret' = [op |-> "compute_cell_type_coupling",
                       recomputed |-> IF loaded THEN {} ELSE WeightClasses,
                       weights |-> weights, completed |-> end.status = "ok"]
           /\ cret' = [status |-> end.status, given |-> given, trace |-> end.trace,
                       saved |-> end.status = "ok"]
    /\ UNCHANGED <<n_samples, comm_size, feature_names, significance_threshold, mod_type,
                    target_for_downstream, fitted, ligands_expr_nonlag, receptors_expr,
                    targets_expr, spatial_weights, stgwr, pool, permuted, group_name,
                    standard_errors, sigVars, pathway_for_downstream, pret, coords, top_k,
                    adata_obsm, vret, vf_args, bandwidths, dret>>

\* ------------------------------------------------------------ fitted inputs
\* Feature names: "ligand:receptor" for an lr model (the receptor of the third
\* is a "_"-joined complex whose first member ends in "se"), the ligand for a
\* ligand model.
FeatLR == LigandL \o <<":">> \o ReceptorR
FeatMR == LigandM \o <<":">> \o ReceptorR
FeatMQR == LigandM \o <<":">> \o ReceptorQR
ModelKinds ==
    { [mod_type |-> "lr", features |-> <<FeatLR, FeatMR>>],
      [mod_type |-> "lr", features |-> <<FeatLR, FeatMQR>>],
      [mod_type |-> "ligand", features |-> <<LigandL, LigandM>>] }

\* Fitted rows (units of 1e-3): intercept, then one coefficient and one standard
\* error per feature (a third feature takes the values of the first).
RowKinds ==
    << [b0 |-> 30, b |-> <<20, 20>>, se |-> <<10, 10>>],
       [b0 |-> 5, b |-> <<-20, 5>>, se |-> <<0, 20>>],
       [b0 |-> 0, b |-> <<10, 0>>, se |-> <<4, 20>>] >>
NKinds == Len(RowKinds)

\* Row kind of observation i for the t-th target
KindOf(kind, t, i) == ((kind[i] + t - 2) % NKinds) + 1

TargetIndex(name) == CHOOSE t \in 1..NTargets : TargetNames[t] = name
TargetSet == {TargetNames[t] : t \in 1..NTargets}

\* The coefficient frame of return_outputs(): b_intercept, then b_<feature>
CoefFrame(n, features, kind, t) ==
    [columns |-> <<BCol(InterceptName)>> \o [k \in 1..Len(features) |-> BCol(features[k])],
     rows |-> [i \in 0..(n - 1) |->
                  <<RowKinds[KindOf(kind, t, i)].b0>> \o
                  [k \in 1..Len(features) |->
                      RowKinds[KindOf(kind, t, i)].b[((k - 1) % 2) + 1]]]]

\* The standard-error frame: se_<feature> for the features from the `first`-th on
SeFrame(n, features, kind, t, first) ==
    [columns |-> [k \in 1..(Len(features) - first + 1) |-> SeCol(features[k + first - 1])],
     rows |-> [i \in 0..(n - 1) |->
                  [k \in 1..(Len(features) - first + 1) |->
                      RowKinds[KindOf(kind, t, i)].se[((k + first - 2) % 2) + 1]]]]

\* Expression of a gene in cell i: cycles through 1, 2, 0 along the cells, from
\* an offset that differs between genes
ExprCycle == <<1, 2, 0>>
ExprOf(epat, g, i) == ExprCycle[((i + epat + g) % Len(ExprCycle)) + 1]

\* Spatial weights on cells laid along a line: neighbours at distance 1 weigh 2,
\* at distance 2 weigh 1; the diagonal is 0 with exclude_self and 3 without.
LineWeights(n, self) ==
    [i \in 0..(n - 1) |-> [j \in 0..(n - 1) |->
        IF i = j THEN self
        ELSE IF Abs(i - j) = 1 THEN 2
        ELSE IF Abs(i - j) = 2 THEN 1 ELSE 0]]
\* Every other cell is a neighbour of weight 1
FlatWeights(n) == [i \in 0..(n - 1) |-> [j \in 0..(n - 1) |-> IF i = j THEN 0 ELSE 1]]
WeightChoices(n) ==
    { [secreted |-> LineWeights(n, 3), membrane_bound |-> LineWeights(n, 0)],
      [secreted |-> FlatWeights(n), membrane_bound |-> FlatWeights(n)] }

\* significance_threshold=0.05, in units of 1/POne
Alpha == 60
AlphaChoices == {Alpha, 2 * Alpha}

\* The state of the interpreter's inputs after the model was fitted and loaded
DataIs(n, w, mk, alpha, kind, first, epat, weights, tfd) ==
    /\ n_samples = n
    /\ target_for_downstream = tfd
    /\ comm_size = w
    /\ mod_type = mk.mod_type
    /\ feature_names = mk.features
    /\ significance_threshold = alpha
    /\ coeffs = [name \in TargetSet |-> CoefFrame(n, mk.features, kind, TargetIndex(name))]
    /\ fitted = [name \in TargetSet |-> CoefFrame(n, mk.features, kind, TargetIndex(name))]
    /\ standard_errors =
          [name \in TargetSet |-> SeFrame(n, mk.features, kind, TargetIndex(name), first)]
    /\ ligands_expr_nonlag =
          [l \in ExpressedLigands |->
              [i \in 0..(n - 1) |-> ExprOf(epat, IF l \in {LigandL, LigandCol1} THEN 0 ELSE 1, i)]]
    /\ receptors_expr =
          [r \in Receptors |-> [i \in 0..(n - 1) |-> ExprOf(epat, IF r = ReceptorR THEN 1 ELSE 2, i)]]
    /\ targets_expr =
          [name \in TargetSet |-> [i \in 0..(n - 1) |-> ExprOf(epat, TargetIndex(name) + 1, i)]]
    /\ spatial_weights = weights

InitSig ==
    /\ pc = [r \in Ranks |-> "new"]
    /\ tgt = [r \in Ranks |-> 1]
    /\ x_chunk = [r \in Ranks |-> <<>>]
    /\ sent = [t \in 1..NTargets |-> {}]
    /\ blocks = [t \in 1..NTargets |-> [r \in Ranks |-> <<>>]]
    /\ p_values_all = [t \in 1..NTargets |-> <<>>]
    /\ files = [t \in 1..NTargets |-> NoFiles]

InitPotentialVars ==
    /\ ret = [status |-> "none"]
    /\ adata_obs = <<>>

\* No pathway call made yet
InitPathwayVars ==
    /\ pret = [status |-> "none"]

\* Nothing configured for the downstream analyses
NoDownstreamConfig ==
    /\ pathway_for_downstream = None

\* The cells lie on a line, one unit apart; no vector field computed yet
InitVfVars ==
    /\ coords = [i \in Obs |-> <<i, 0>>]
    /\ top_k = 1
    /\ adata_obsm = <<>>
    /\ vret = [status |-> "none"]
    /\ vf_args = <<>>

\* Default neighbourhoods (a distance of 0 stands for None), both weight files
\* written by the model run
InitCacheVars ==
    /\ bandwidths = [n_neighbors_membrane_bound |-> 1, n_neighbors_secreted |-> 2,
                     distance_membrane_bound |-> 0, distance_secreted |-> 0]
    /\ cache = [c \in WeightClasses |-> Stored(spatial_weights[c])]
    /\ wret = [op |-> "none"]
    /\ dret = [status |-> "none"]

\* The distributed significance test: any number of samples and ranks
Init ==
    /\ PermutedIdle
    /\ CouplingIdle
    /\ StgwrIdle
    /\ \E n \in 1..MaxN, w \in 1..MaxW, mk \in ModelKinds, alpha \in AlphaChoices, first \in 1..2 :
          \E kind \in [0..(n - 1) -> 1..NKinds] :
             DataIs(n, w, mk, alpha, kind, first, 0, CHOOSE x \in WeightChoices(n) : TRUE, None)
    /\ InitSig
    /\ InitPotentialVars
    /\ InitPathwayVars
    /\ NoDownstreamConfig
    /\ InitVfVars
    /\ InitCacheVars

Next ==
    \/ \E r \in Ranks : Construct(r)
    \/ \E r \in Ranks : SigLocal(r)
    \/ SigRoot

Spec == Init /\ [][Next]_vars

\* The effect potential of a fitted model, computed serially on one rank
InitPotential ==
    /\ PermutedIdle
    /\ CouplingIdle
    /\ StgwrIdle
    /\ \E n \in 1..MaxCells, mk \in ModelKinds, epat \in 0..2, tfd \in {None, TargetNames[2]} :
          \E kind \in [0..(n - 1) -> 1..NKinds], weights \in WeightChoices(n) :
             DataIs(n, 1, mk, Alpha, kind, 1, epat, weights, tfd)
    /\ InitSig
    /\ InitPotentialVars
    /\ InitPathwayVars
    /\ NoDownstreamConfig
    /\ InitVfVars
    /\ InitCacheVars

NextPotential ==
    \/ Construct(0)
    \/ \E ligand \in Ligands, receptor \in IF mod_type = "lr" THEN Receptors ELSE {None} :
          GetEffectPotential(None, ligand, receptor, TRUE)

SpecPotential == InitPotential /\ [][NextPotential]_vars

\* Pathway aggregation on a fitted model: lr models with two or three fitted
\* interactions, ligand models with two ligands
PathwayModelKinds ==
    ModelKinds \cup {[mod_type |-> "lr", features |-> <<FeatLR, FeatMR, FeatMQR>>]}

InitPathway ==
    /\ PermutedIdle
    /\ CouplingIdle
    /\ StgwrIdle
    /\ \E n \in 1..MaxCells, mk \in PathwayModelKinds, tfd \in {None, TargetNames[2]} :
          \E kind \in [0..(n - 1) -> 1..NKinds] :
             DataIs(n, 1, mk, Alpha, kind, 1, 0, CHOOSE x \in WeightChoices(n) : TRUE, tfd)
    /\ pathway_for_downstream \in {None} \cup Pathways
    /\ InitSig
    /\ InitPotentialVars
    /\ InitPathwayVars
    /\ InitVfVars
    /\ InitCacheVars

NextPathway ==
    \/ Construct(0)
    \/ \E pathwayArg \in {None, "P1"}, targetArg \in {None, TargetNames[2]} :
          GetPathwayPotential(pathwayArg, targetArg)

SpecPathway == InitPathway /\ [][NextPathway]_vars

\* The vector field of an effect potential W[i,j] * ligand[i] * effect[j] and
\* of the normalized sums get_effect_potential derives from it
MaxVfCells == 3
MaxK == 2
PotentialOf(weights, ligand, effect) ==
    MultiplyCols(MultiplyRows(weights, ligand), effect)

InitVf ==
    /\ PermutedIdle
    /\ CouplingIdle
    /\ StgwrIdle
    /\ \E n \in 1..MaxVfCells, mk \in {m \in ModelKinds : m.mod_type = "ligand"} :
          \E kind \in [0..(n - 1) -> {1}], weights \in WeightChoices(n) :
             DataIs(n, 1, mk, Alpha, kind, 1, 0, weights, None)
    /\ InitSig
    /\ InitPotentialVars
    /\ InitPathwayVars
    /\ NoDownstreamConfig
    /\ coords = [i \in Obs |-> <<i, 0>>]
    /\ top_k \in 1..MaxK
    /\ adata_obsm = <<>>
    /\ vret = [status |-> "none"]
    /\ InitCacheVars
    /\ \E ligand \in [Obs -> {0, 1}], effect \in [Obs -> {-2, 0, 1}] :
          LET pot == PotentialOf(spatial_weights["secreted"], ligand, effect)
          IN  vf_args = [effect_potential |-> pot,
                         sender |-> NormalizeSums(RowSums(pot)),
                         receiver |-> NormalizeSums(ColSums(pot))]

NextVf ==
    \/ Construct(0)
    \/ /\ vret.status = "none"
       /\ DefineEffectVf(vf_args.effect_potential, vf_args.sender, vf_args.receiver,
                         LigandL, TargetNames[1])

SpecVf == InitVf /\ [][NextVf]_vars

\* Downstream operations on a fitted model whose weight files may be missing
CacheChoices(weights) ==
    { [c \in WeightClasses |-> IF c \in present THEN Stored(weights[c]) ELSE Absent] :
          present \in SUBSET WeightClasses }

\* The initial states of a downstream run on a model of one of `kinds`
InitDirectionOf(kinds) ==
    /\ PermutedIdle
    /\ CouplingIdle
    /\ StgwrIdle
    /\ \E n \in 1..MaxCells, mk \in kinds, tfd \in {None, TargetNames[2]} :
          \E weights \in WeightChoices(n) :
             DataIs(n, 1, mk, Alpha, [i \in 0..(n - 1) |-> i + 1], 1, 0, weights, tfd)
    /\ InitSig
    /\ InitPotentialVars
    /\ InitPathwayVars
    /\ NoDownstreamConfig
    /\ InitVfVars
    /\ bandwidths \in [n_neighbors_membrane_bound : {1}, n_neighbors_secreted : {2},
                       distance_membrane_bound : {0}, distance_secreted : {0, 2}]
    /\ cache \in CacheChoices(spatial_weights)
    /\ wret = [op |-> "none"]
    /\ dret = [status |-> "none"]

InitDirection == InitDirectionOf(ModelKinds)

NextDirection ==
    \/ Construct(0)
    \/ \E ligand \in Ligands, receptor \in IF mod_type = "lr" THEN Receptors ELSE {None} :
          GetEffectPotentialNoWeights(None, ligand, receptor, TRUE)
    \/ \E targetsArg \in {None, TargetNames[1]}, compute_pathway_effect \in BOOLEAN :
          InferredEffectDirection(targetsArg, compute_pathway_effect)

SpecDirection == InitDirection /\ [][NextDirection]_vars

\* An STGWR instance on rank 0, from construction to local fits
StgwrModTypes == {"niche", "lr", "slice", "receptor"}
StgwrDistrs == {"gaussian", "poisson", "nb"}

InitStgwr ==
    /\ PermutedIdle
    /\ CouplingIdle
    /\ DataIs(1, 1, [mod_type |-> "ligand", features |-> <<LigandL, LigandM>>], Alpha,
              [i \in {0} |-> 1], 1, 0, CHOOSE weights \in WeightChoices(1) : TRUE, None)
    /\ InitSig
    /\ InitPotentialVars
    /\ InitPathwayVars
    /\ NoDownstreamConfig
    /\ InitVfVars
    /\ InitCacheVars
    /\ \E mt \in StgwrModTypes, distr \in StgwrDistrs, bw \in 1..2, bw_fixed \in BOOLEAN,
          n \in 1..MaxN :
             stgwr = StgwrNew(mt, distr, bw, bw_fixed, n)
    /\ pool = PoolIdle

NextStgwr ==
    \/ LoadAndProcess
    \/ \E i \in 0..(MaxN - 1) : PoolTask(i)
    \/ PoolMapReturns
    \/ \E i \in 0..(MaxN - 1) : LocalFit(i)

SpecStgwr == InitStgwr /\ [][NextStgwr]_vars

\* Permutation tests on a loaded model of up to MaxN cells
InitPermutation ==
    /\ StgwrIdle
    /\ \E n \in 1..MaxN, epat \in 0..2 :
          DataIs(n, 1, [mod_type |-> "ligand", features |-> <<LigandL, LigandM>>], Alpha,
                 [i \in 0..(n - 1) |-> 1], 1, epat, CHOOSE weights \in WeightChoices(n) : TRUE, None)
    /\ InitSig
    /\ InitPotentialVars
    /\ InitPathwayVars
    /\ NoDownstreamConfig
    /\ InitVfVars
    /\ InitCacheVars
    /\ PermutedIdle
    /\ CouplingIdle

NextPermutation ==
    \/ Construct(0)
    \/ \E gene \in TargetSet, n_permutations \in 1..MaxPerms, permute_nonzeros_only \in BOOLEAN,
          has_custom_receptors_path \in BOOLEAN :
             PermutationTest(gene, n_permutations, permute_nonzeros_only, has_custom_receptors_path)

SpecPermutation == InitPermutation /\ [][NextPermutation]_vars

\* inferred_effect_direction on a ligand model fitted on two collagen ligands
CollagenModelKinds == {[mod_type |-> "ligand", features |-> <<LigandCol1, LigandCol4>>]}

InitKeys == InitDirectionOf(CollagenModelKinds)

NextKeys ==
    \/ Construct(0)
    \/ \E targetsArg \in {None, TargetNames[1]}, compute_pathway_effect \in BOOLEAN :
          InferredEffectDirection(targetsArg, compute_pathway_effect)

SpecKeys == InitKeys /\ [][NextKeys]_vars

\* Cell type coupling of a fitted model whose cells carry type labels
MaxTypedCells == 3
InitCoupling ==
    /\ PermutedIdle
    /\ StgwrIdle
    /\ \E n \in 1..MaxTypedCells, mk \in ModelKinds :
          \E weights \in WeightChoices(n) :
             /\ DataIs(n, 1, mk, Alpha, [i \in 0..(n - 1) |-> 1], 1, 0, weights, None)
             /\ group_name \in [0..(n - 1) -> {GroupLabels[g] : g \in DOMAIN GroupLabels}]
    /\ cret = [status |-> "none"]
    /\ InitSig
    /\ InitPotentialVars
    /\ InitPathwayVars
    /\ NoDownstreamConfig
    /\ InitVfVars
    /\ bandwidths = [n_neighbors_membrane_bound |-> 1, n_neighbors_secreted |-> 2,
                     distance_membrane_bound |-> 0, distance_secreted |-> 0]
    /\ cache \in {[c \in WeightClasses |-> Stored(spatial_weights[c])],
                  [c \in WeightClasses |-> Absent]}
    /\ wret = [op |-> "none"]
    /\ dret = [status |-> "none"]

NextCoupling ==
    \/ Construct(0)
    \/ \E targetsArg \in {None, TargetNames[1]}, given \in BOOLEAN, empty_nan \in BOOLEAN :
          ComputeCellTypeCoupling(targetsArg, given, empty_nan)

SpecCoupling == InitCoupling /\ [][NextCoupling]_vars

\* ================================================================== claims
\* The observations rank r should own: [r*c, min((r+1)*c, N)) with c = ceil(N/W)
OwnedBy(r) ==
    {i \in Obs : r * CeilDiv(n_samples, comm_size) <= i
                 /\ i < (r + 1) * CeilDiv(n_samples, comm_size)}
ChunkSet(r) == {x_chunk[r][k] : k \in 1..Len(x_chunk[r])}

\* C1: after initialisation rank r holds the contiguous range
\* [r*c, min((r+1)*c, N)), c = ceil(N/W); the chunks of all ranks are pairwise
\* disjoint and cover [0, N) exactly.
C1_ChunksPartition ==
    /\ \A r \in Ranks : pc[r] # "new" =>
          /\ ChunkSet(r) = OwnedBy(r)
          /\ \A k \in 1..(Len(x_chunk[r]) - 1) : x_chunk[r][k] < x_chunk[r][k + 1]
    /\ (\A r \in Ranks : pc[r] # "new") =>
          /\ \A r, q \in Ranks : r # q => ChunkSet(r) \cap ChunkSet(q) = {}
          /\ UNION {ChunkSet(r) : r \in Ranks} = Obs

\* The p-values of observation i for the t-th target, as one rank computes them
PRowOf(t, i) ==
    LocalPValues(<<i>>, coeffs[TargetNames[t]], standard_errors[TargetNames[t]],
                 feature_names)[1]

\* C2: the p-value matrix assembled on rank 0 has exactly N rows and row i
\* holds the p-values of observation i, whatever the number of ranks and the
\* order in which they finish.
C2_AssembledRowsByObservation ==
    \A t \in 1..NTargets : p_values_all[t] # <<>> =>
        /\ Len(p_values_all[t]) = n_samples
        /\ \A i \in Obs : p_values_all[t][i + 1] = PRowOf(t, i)

\* C3: every entry of a local p-value block is 1 when the standard error is 0,
\* 1 when the feature has no standard-error column, and otherwise the Wald test
\* of the coefficient against the standard error.
C3_PValueCases ==
    \A t \in 1..NTargets : \A r \in sent[t] :
        \A i \in 1..Len(x_chunk[r]), j \in 1..Len(feature_names) :
            LET coef == coeffs[TargetNames[t]]
                se == standard_errors[TargetNames[t]]
                f == feature_names[j]
                obs == x_chunk[r][i]
            IN  blocks[t][r][i][j] =
                    IF ~InList(SeCol(f), se.columns) THEN POne
                    ELSE IF Cell(se, obs, SeCol(f)) = 0 THEN POne
                    ELSE wald_test(Cell(coef, obs, BCol(f)), Cell(se, obs, SeCol(f)))

\* C4: the q-values of observation i are the multiple-testing correction of the
\* p-values of row i alone (all features of that observation).
C4_QValuesRowWise ==
    \A t \in 1..NTargets : files[t] # NoFiles =>
        /\ Len(files[t].q_values) = Len(files[t].p_values)
        /\ \A i \in 1..Len(files[t].p_values) :
              files[t].q_values[i] = multitesting_correction(files[t].p_values[i])

\* Two observations of one table whose p-values differ, corrected to different
\* q-values, one of them raised above its p-value by the correction
C4_Witness ==
    \E t \in 1..NTargets : files[t] # NoFiles /\
        \E i, k \in 1..Len(files[t].p_values) :
            /\ files[t].p_values[i] # files[t].p_values[k]
            /\ files[t].q_values[i] # files[t].q_values[k]
            /\ files[t].q_values[i] # files[t].p_values[i]

\* C5: is_significant[i,j] is true exactly when qvalue[i,j] is strictly below
\* the significance threshold.
C5_SignificantIffBelowAlpha ==
    \A t \in 1..NTargets : files[t] # NoFiles =>
        \A i \in 1..Len(files[t].q_values), j \in 1..Len(feature_names) :
            files[t].is_significant[i][j] <=> (files[t].q_values[i][j] < significance_threshold)

\* A q-value equal to the threshold, reported as not significant
C5_Witness ==
    \E t \in 1..NTargets : files[t] # NoFiles /\
        \E i \in 1..Len(files[t].q_values), j \in 1..Len(feature_names) :
            /\ files[t].q_values[i][j] = significance_threshold
            /\ ~files[t].is_significant[i][j]

\* C6: every step of compute_coeff_significance leaves self.coeffs and
\* self.standard_errors as they were (columns, rows and values).
C6_SignificanceReadOnly ==
    [][((\E r \in Ranks : SigLocal(r)) \/ SigRoot) =>
          (coeffs' = coeffs /\ standard_errors' = standard_errors)]_vars

\* The call has returned on rank 0 with the files of every target written, and
\* the stored coefficients still hold their intercept column
C6_Witness ==
    /\ pc[0] = "done"
    /\ \A t \in 1..NTargets :
          files[t] # NoFiles /\ InList(BCol(InterceptName), coeffs[TargetNames[t]].columns)

\* C7: get_effect_potential leaves the stored coefficients equal to the fitted
\* ones.
C7_CoeffsStayFitted == coeffs = fitted

\* The fitted coefficient of the queried interaction at receiver j, with the
\* negligible ones (|beta| < 1e-2) replaced by 0
BetaOf(target, ligand, receptor, j) ==
    LET b == Cell(fitted[target], j, CoeffLabel(mod_type, ligand, receptor))
    IN  IF Abs(b) < NegligibleCoef THEN 0 ELSE b

\* The spatial weights of the ligand's signaling class
ClassWeights(ligand) ==
    IF LrDbType(ligand) = "Cell-Cell Contact"
    THEN spatial_weights["membrane_bound"] ELSE spatial_weights["secreted"]

\* W[i,j] * ligand_expr[i] * (receptor_expr[j] for lr models)
SentOf(ligand, receptor, i, j) ==
    ClassWeights(ligand)[i][j] * ligands_expr_nonlag[ligand][i]
        * (IF mod_type = "lr" THEN receptors_expr[receptor][j] ELSE 1)

\* C8: for ligand and lr models potential[i,j] = W[i,j] * ligand_expr[i] *
\* (receptor_expr[j] | 1) * beta[j] * (1 if target_expr[j] != 0 else 0), with
\* every |beta[j]| < 1e-2 replaced by 0.
C8_PotentialFormula ==
    ret.status = "ok" =>
        \A i, j \in Obs :
            ret.effect_potential[i][j] =
                SentOf(ret.ligand, ret.receptor, i, j)
                    * BetaOf(ret.target, ret.ligand, ret.receptor, j)
                    * (IF targets_expr[ret.target][j] # 0 THEN 1 ELSE 0)

\* One returned potential holding an entry that is zero only because the target
\* is not expressed at the receiver, and an entry that is zero only because the
\* fitted coefficient at the receiver is nonzero but below 1e-2 in magnitude
C8_Witness ==
    /\ ret.status = "ok"
    /\ \E i, j \in Obs :
          /\ SentOf(ret.ligand, ret.receptor, i, j)
                * BetaOf(ret.target, ret.ligand, ret.receptor, j) # 0
          /\ targets_expr[ret.target][j] = 0
          /\ ret.effect_potential[i][j] = 0
    /\ \E i, j \in Obs :
          /\ SentOf(ret.ligand, ret.receptor, i, j) # 0
          /\ targets_expr[ret.target][j] # 0
          /\ Cell(fitted[ret.target], j, CoeffLabel(mod_type, ret.ligand, ret.receptor)) # 0
          /\ ret.effect_potential[i][j] = 0

\* C9: every normalized sender and receiver score lies in [-1, 1].
C9_ScoresInUnitInterval ==
    ret.status = "ok" =>
        \A i \in Obs : InUnitRange(ret.sender[i]) /\ InUnitRange(ret.receiver[i])

\* C10: a cell whose summed sent (received) potential is zero has sender
\* (receiver) score exactly 0, never NaN, also when all cells have the same
\* absolute sum.
C10_ZeroSumZeroScore ==
    ret.status = "ok" =>
        \A i \in Obs :
            /\ RowSums(ret.effect_potential)[i] = 0 => IsZero(ret.sender[i])
            /\ ColSums(ret.effect_potential)[i] = 0 => IsZero(ret.receiver[i])

\* Min-max scaling of |sums[i]| over all cells, as numerator and denominator
MinMaxOfAbs(sums, i) ==
    LET mags == {Abs(sums[c]) : c \in DOMAIN sums}
    IN  <<Abs(sums[i]) - SetMin(mags), SetMax(mags) - SetMin(mags)>>

\* Sign of an integer: -1, 0 or 1
Sgn(x) == IF x > 0 THEN 1 ELSE IF x < 0 THEN -1 ELSE 0

\* A score agrees with the raw sums it was computed from
ScoreMatches(score, sums, i) ==
    /\ <<Abs(score[1]), score[2]>> = MinMaxOfAbs(sums, i)
    /\ score[1] # 0 => Sgn(score[1]) = Sgn(sums[i])

C15_ConfigErrorKeepsState ==
    [][((\E ligand \in Ligands,
            receptor \in IF mod_type = "lr" THEN Receptors ELSE {None} :
               GetEffectPotential(None, ligand, receptor, TRUE))
        /\ ret'.status = "ValueError")
       => (coeffs' = coeffs /\ adata_obs' = adata_obs)]_vars

\* The interactions of a pathway that the fitted model represents: its
\* ligand-receptor pairs among the features of an lr model, its ligands among
\* the features of a ligand model
Represented(pathway) ==
    IF mod_type = "lr"
    THEN {row \in LrDbRows : row.pathway = pathway
                             /\ InList(row.from \o <<":">> \o row.to, feature_names)}
    ELSE {l \in AllSenders(pathway) : InList(l, feature_names)}

\* C12: when fewer than 3 interactions of the requested pathway are represented
\* in the fitted model (lr or ligand), get_pathway_potential raises a
\* configuration error, calls get_effect_potential for no member and writes
\* nothing to adata.obs.
C12_FewMembersRaise ==
    (pret.status # "none" /\ pret.requested # None
       /\ Cardinality(Represented(pret.requested)) < 3)
    => (pret.status = "ValueError" /\ pret.calls = <<>> /\ ~pret.stored)

\* C13: the 'Must provide pathway to analyze' error is raised only when no
\* pathway is given as argument and none is configured; a call that names its
\* pathway gets that pathway analysed.
C13_ExplicitPathwayAnalysed ==
    (pret.status # "none" /\ pret.message = "Must provide pathway to analyze.")
    => (pret.requested = None /\ pathway_for_downstream = None)

\* Both components of a vector are zero
IsZeroVector(v) == IsZero(v[1]) /\ IsZero(v[2])

\* C16: a cell with no nonzero entry in its row of the effect potential gets the
\* zero vector as sending field, a cell with no nonzero entry in its column
\* gets the zero vector as receiving field, and the call raises nothing.
C16_NoNeighbourZeroVector ==
    vret.status # "none" =>
        /\ vret.status = "ok"
        /\ \A i \in Obs :
              /\ (\A j \in Obs : vret.effect_potential[i][j] = 0)
                    => IsZeroVector(vret.sending_vf[i])
              /\ (\A j \in Obs : vret.effect_potential[j][i] = 0)
                    => IsZeroVector(vret.receiving_vf[i])

\* A cell without nonzero entry in its row and one without nonzero entry in its
\* column, both with a zero field, next to a cell whose sending field is not zero
C16_Witness ==
    /\ vret.status = "ok"
    /\ \E i \in Obs : /\ \A j \in Obs : vret.effect_potential[i][j] = 0
                      /\ IsZeroVector(vret.sending_vf[i])
    /\ \E i \in Obs : /\ \A j \in Obs : vret.effect_potential[j][i] = 0
                      /\ IsZeroVector(vret.receiving_vf[i])
    /\ \E i \in Obs : ~IsZeroVector(vret.sending_vf[i])

\* A clipped component c of an unclipped component u: within [-max_val, max_val],
\* of the sign of u and no larger in magnitude
ClippedFrom(c, u) ==
    /\ c[2] > 0 /\ u[2] > 0
    /\ Abs(c[1]) * MaxValInverse <= c[2]
    /\ Sign(c[1]) = Sign(u[1])
    /\ Abs(c[1]) * u[2] <= Abs(u[1]) * c[2]

\* C17: every component of the stored sending and receiving fields lies in
\* [-max_val, max_val], has the sign of the unclipped component and a magnitude
\* no larger than it.
C17_FieldsClipped ==
    vret.status = "ok" =>
        \A i \in Obs, c \in 1..2 :
            /\ ClippedFrom(vret.sending_vf[i][c], vret.unclipped_sending[i][c])
            /\ ClippedFrom(vret.receiving_vf[i][c], vret.unclipped_receiving[i][c])

\* No unused nonzero entry of `vals` is larger in magnitude than a used one
StrongestUsed(vals, used) ==
    \A u \in 1..Len(used) : \A v \in StoredEntries(vals) :
        (\A w \in 1..Len(used) : used[w] # v) => Abs(vals[v]) <= Abs(vals[used[u]])

\* C18: the direction of cell i's sending (receiving) vector uses at most k
\* nonzero entries of row (column) i, and when there are more than k the ones
\* used are the k strongest by magnitude.
C18_KStrongestUsed ==
    vret.status = "ok" =>
        \A i \in Obs :
            /\ Len(vret.used_sending[i]) <= vret.k
            /\ Len(vret.used_receiving[i]) <= vret.k
            /\ StrongestUsed(vret.effect_potential[i], vret.used_sending[i])
            /\ StrongestUsed(Transposed(vret.effect_potential)[i], vret.used_receiving[i])

\* The error inferred_effect_direction raises for a model without ligand expression
IsDirectionError(out) ==
    /\ out.status = "ValueError"
    /\ out.message = "Direction of effect can only be inferred if ligand expression is used as part of the model."

\* C14: inferred_effect_direction raises its 'Direction of effect can only be
\* inferred...' error exactly when mod_type is neither 'ligand' nor 'lr'; for
\* 'lr' and 'ligand' models it proceeds.
C14_DirectionRaisesIffNoLigand ==
    dret.status # "none" => (IsDirectionError(dret) <=> mod_type \notin {"ligand", "lr"})

\* C19: once an operation that needs the spatial weights has completed, both
\* weight files are present: a missing file was recomputed and written.
C19_MissingFileRewritten ==
    (wret.op # "none" /\ wret.completed) => \A c \in WeightClasses : cache[c].present

\* C20: the weights an operation builds on a cache miss for a signaling class
\* are those every operation would build for that class (same bandwidth
\* source, same exclude-self policy).
C20_OneConfigurationPerClass ==
    wret.op # "none" =>
        \A c \in wret.recomputed :
            /\ wret.weights[c] = PotentialFallback(c)
            /\ wret.weights[c] = DirectionFallback(c)

\* What a completed inferred_effect_direction holds for one processed query:
\* the potential and scores computed with the call's weights, and the two
\* vector fields built from that potential and those scores
QueryStagesAgree(pair) ==
    LET out == CallOutcome(coeffs, wret.weights, pair.target, pair.query, None)
        vf == VfOutcome(out.effect_potential, out.sender, out.receiver, top_k)
    IN  /\ out.status = "ok"
        /\ adata_obs[SentKey(mod_type, pair.query, pair.target, None)] = out.sender
        /\ adata_obs[ReceivedKey(mod_type, pair.query, pair.target, None)] = out.receiver
        /\ adata_obsm[SenderVfKey(pair.query, pair.target)] = vf.sending_vf
        /\ adata_obsm[ReceiverVfKey(pair.query, pair.target)] = vf.receiving_vf

\* C21: for every query processed by inferred_effect_direction the weights are
\* loaded or built first, the potential and the scores are computed with them,
\* and the stored vector field is the one built from that query's own
\* potential and scores; no vector field is stored for an unprocessed query.
C21_StagesInOrder ==
    /\ (dret.status = "ok" /\ wret.op = "inferred_effect_direction") =>
          /\ \A c \in WeightClasses : cache[c] = Stored(wret.weights[c])
          /\ \A k \in 1..Len(dret.done) : QueryStagesAgree(dret.done[k])
    /\ \A t \in 1..NTargets : \A q \in DOMAIN feature_names :
          SenderVfKey(feature_names[q], TargetNames[t]) \in DOMAIN adata_obsm =>
              SentKey(mod_type, feature_names[q], TargetNames[t], None) \in DOMAIN adata_obs

\* Both weight files were rebuilt and two queries of one target left a non-zero field
C21_Witness ==
    /\ dret.status = "ok"
    /\ wret.op = "inferred_effect_direction"
    /\ wret.recomputed = WeightClasses
    /\ Len(dret.done) >= 2
    /\ \E k \in 1..Len(dret.done) :
          \E i \in Obs :
             ~IsZeroVector(adata_obsm[SenderVfKey(dret.done[k].query, dret.done[k].target)][i])

\* C22: the matrix _compute_all_wi returns has, in every row i, the weight
\* vector of observation i computed by the pool task with id i, whatever the
\* order in which the tasks completed.
C22_RowsByTaskId ==
    stgwr.pc = "loaded" =>
        /\ DOMAIN stgwr.all_spatial_weights = 0..(stgwr.n_samples - 1)
        /\ \A i \in 0..(stgwr.n_samples - 1) :
              /\ stgwr.all_spatial_weights[i] = pool.results[i]
              /\ stgwr.all_spatial_weights[i]
                    = get_wi(i, stgwr.n_samples, stgwr.bw_fixed, stgwr.bw)
              /\ \E j \in 0..(stgwr.n_samples - 1) : stgwr.all_spatial_weights[i][j] # 0

\* The matrix was assembled after the last task completed first
C22_Witness ==
    /\ stgwr.pc = "loaded"
    /\ stgwr.n_samples >= 3
    /\ pool.completed[1] = stgwr.n_samples - 1
    /\ stgwr.all_spatial_weights[0] # stgwr.all_spatial_weights[stgwr.n_samples - 1]

\* C23: load_and_process reports a mod_type as invalid exactly when it is not
\* one of 'niche', 'lr', 'slice', and then does not go on to compute the
\* spatial weights.
C23_InvalidModTypeRejected ==
    stgwr.pc # "new" =>
        /\ (\E k \in DOMAIN stgwr.log : stgwr.log[k] = InvalidModType)
               <=> stgwr.mod_type \notin {"niche", "lr", "slice"}
        /\ stgwr.mod_type \in {"niche", "lr", "slice"}

\* C24: _local_fit(i) hands observation i's own weight vector to the solver,
\* in every distribution family.
C24_LocalFitUsesOwnWeights ==
    stgwr.fit.status # "none" =>
        /\ stgwr.fit.status = "ok"
        /\ "wi" \in DOMAIN stgwr.fit.call
        /\ stgwr.fit.call.wi = stgwr.all_spatial_weights[stgwr.fit.i]

\* The values of a vector with their multiplicities
ValueCounts(v) == [x \in {v[i] : i \in DOMAIN v} |-> Cardinality({i \in DOMAIN v : v[i] = x})]

\* C25: with permute_nonzeros_only every permuted vector is 0 exactly where the
\* gene's expression is 0; in both modes every permuted vector is a
\* rearrangement of the original values.
C25_NonzeroOnlyKeepsZeros ==
    permuted.status # "none" =>
        \A k \in 2..Len(permuted.permuted_data_list) :
            LET v == permuted.permuted_data_list[k]
            IN  /\ ValueCounts(v) = ValueCounts(permuted.gene_data)
                /\ permuted.permuted_nonzeros_only =>
                      \A i \in DOMAIN v : (v[i] = 0) <=> (permuted.gene_data[i] = 0)

\* effects.columns = [col.split("_")[1] for col in effects.columns]
MoranEffectColumns(coef) ==
    [k \in 1..Len(CoefColumns(coef)) |-> Split(CoefColumns(coef)[k], "_")[2]]

\* C26: the feature name the downstream code recovers from a column 'b_'+f or
\* 'se_'+f is exactly f, so that putting the prefix back gives the column.
C26_PrefixRoundTrip ==
    \A t \in 1..NTargets :
        LET coef == coeffs[TargetNames[t]]
            se == standard_errors[TargetNames[t]]
        IN  /\ \A k \in 1..Len(se.columns) : SeCol(SeFeatureMatch(se)[k]) = se.columns[k]
            /\ \A k \in 1..Len(CoefColumns(coef)) :
                  /\ BCol(FeatNamesTarget(coef)[k]) = CoefColumns(coef)[k]
                  /\ BCol(MoranEffectColumns(coef)[k]) = CoefColumns(coef)[k]

\* The adata.obs and adata.obsm keys a (target, ligand) query writes its results to
KeysOfQuery(pair) ==
    { SentKey(mod_type, pair.query, pair.target, None),
      ReceivedKey(mod_type, pair.query, pair.target, None),
      SenderVfKey(pair.query, pair.target),
      ReceiverVfKey(pair.query, pair.target) }

\* C27: stored results are keyed per query: two processed queries that differ
\* in target or interaction write to different keys, and the entries of every
\* processed query are still the ones computed for it after the later queries ran.
C27_KeyedPerQuery ==
    dret.status = "ok" =>
        /\ \A k1, k2 \in 1..Len(dret.done) :
              dret.done[k1] # dret.done[k2]
                  => KeysOfQuery(dret.done[k1]) \cap KeysOfQuery(dret.done[k2]) = {}
        /\ \A k \in 1..Len(dret.done) :
              LET pair == dret.done[k]
                  out == CallOutcome(coeffs, wret.weights, pair.target, pair.query, None)
                  vf == VfOutcome(out.effect_potential, out.sender, out.receiver, top_k)
              IN  /\ adata_obs[SentKey(mod_type, pair.query, pair.target, None)] = out.sender
                  /\ adata_obsm[SenderVfKey(pair.query, pair.target)] = vf.sending_vf
                  /\ adata_obsm[ReceiverVfKey(pair.query, pair.target)] = vf.receiving_vf

\* The general direction rule applied to any number of neighbours: the unit
\* vectors towards the neighbours, weighted by their potential values, summed
\* and renormalised
WeightedDirection(idx, vals, i) ==
    LET unit == [n \in 1..Len(idx) |->
                    Normalize(<<coords[idx[n]][1] - coords[i][1],
                                coords[idx[n]][2] - coords[i][2]>>)]
        RECURSIVE Weighted(_)
        Weighted(n) == IF n > Len(idx) THEN 0
                       ELSE unit[n][1] * vals[idx[n]] + Weighted(n + 1)
    IN  Normalize(<<Weighted(1), 0>>)

\* C28: for a cell with exactly one qualifying neighbour the sending and the
\* receiving vector are those the general weighted rule gives for that single
\* neighbour, so a negative potential reverses the direction there as well.
C28_OneNeighbourFollowsGeneralRule ==
    vret.status = "ok" =>
        \A i \in Obs :
            /\ (Len(vret.used_sending[i]) = 1 /\ vf_args.sender[i][2] > 0)
                  => vret.unclipped_sending[i]
                        = Scale(WeightedDirection(vret.used_sending[i],
                                                  vret.effect_potential[i], i),
                                vf_args.sender[i])
            /\ (Len(vret.used_receiving[i]) = 1 /\ vf_args.receiver[i][2] > 0)
                  => vret.unclipped_receiving[i]
                        = Scale(WeightedDirection(vret.used_receiving[i],
                                                  Transposed(vret.effect_potential)[i], i),
                                vf_args.receiver[i])

\* C29: with more than one rank, once compute_coeff_significance has returned
\* on a rank the three files of every target have been written, so the rank
\* finds '<target>_is_significant.csv' when it reads it next.
C29_FilesWrittenBeforeReturn ==
    comm_size > 1 =>
        \A r \in Ranks : pc[r] = "done" => \A t \in 1..NTargets : files[t] # NoFiles

\* C30: in compute_cell_type_coupling with an effect-strength threshold given,
\* the cut-off applied for every (target, interaction, cell type pair) is the
\* configured percentile of that interaction's effect potential values,
\* whatever was processed before it in the loop (and the loop gets to apply it)
C30_CutoffIsConfiguredPercentile ==
    (cret.status # "none" /\ cret.given /\ mod_type = "lr") =>
        /\ cret.status # "ValueError"
        /\ \A k \in DOMAIN cret.trace :
              cret.trace[k].cutoff = Percentile(cret.trace[k].data, DefaultThreshold, TRUE).value

\* A later cut-off taken at another percentile than the configured one
C30_DriftSeen ==
    /\ cret.status # "none" /\ cret.given /\ mod_type = "lr"
    /\ \E k \in DOMAIN cret.trace :
          /\ k > 1
          /\ cret.trace[k].percentile # DefaultThreshold
          /\ cret.trace[k].cutoff # Percentile(cret.trace[k].data, DefaultThreshold, TRUE).value

====
